---- MODULE Spec2Model ----
(***************************************************************************)
(* Waldur marketplace: orders, order items and resources                   *)
(* (waldur_mastermind/marketplace), the support-desk plugin that drives    *)
(* order items through support issues (waldur_mastermind/                  *)
(* marketplace_support) and the pull of remote offerings                   *)
(* (waldur_mastermind/marketplace_remote).                                 *)
(*                                                                         *)
(* The database is one record db = [resources, orders, items, issues];     *)
(* model methods, signal handlers and callbacks are operators from db to   *)
(* db, so that a save() and the post_save handlers it dispatches are one   *)
(* composed update, as they are in one Django request or Celery task.      *)
(***************************************************************************)
EXTENDS Integers, Sequences, FiniteSets, TLC

VARIABLES
    resources,  \* marketplace.Resource rows, numbered by position
    orders,     \* marketplace.Order rows
    items,      \* marketplace.OrderItem rows
    issues,     \* support.Issue attached to order item i (issues[i])
    tasks,      \* Celery tasks scheduled with transaction.on_commit, not yet run
    last,       \* the last request, task or signal served and its outcome
    plans,      \* marketplace.Plan rows of the local copy of a remote offering
    remote,     \* the plans of that offering as the remote Waldur serves them
    pulls,      \* how many times the offering has been pulled
    requests,   \* requests on resources that passed their validators, not yet served
    permissions, \* active CustomerPermission, ProjectPermission, OfferingPermission rows
    grants,     \* add_user calls that found no active permission, not yet inserted
    lastGrant,  \* the last add_user call that ended and its outcome
    inventory,  \* marketplace.Resource rows as the resource counters see them
    aggregate,  \* marketplace.AggregateResourceCount.count by scope and category
    offeringRows, \* marketplace.Offering rows: category and state
    offering_count, \* usage of the offering_count quota of each category
    allocated,  \* Resource.limits for the limited component, by resource
    limitOrders, \* accepted limit requests whose order item is not yet done
    lastLimit,  \* the last limit request and whether it was accepted
    moveDb,  \* the project of the moved resource, its scope, orders and invoice items
    lastMove,  \* the last move_resource request and its status
    exec,  \* the resource being deleted and the Celery chain of its executor
    calls,  \* the state transitions and backend calls made for it, in order
    zammadIssues,  \* the support issues handed to the Zammad backend
    tickets  \* the tickets Zammad holds, by id, with their status

marketVars == <<resources, orders, items, issues, tasks, last>>
pullVars == <<plans, remote, pulls>>
structVars == <<permissions, grants, lastGrant>>
countVars == <<inventory, aggregate>>
quotaVars == <<offeringRows, offering_count>>
limitVars == <<allocated, limitOrders, lastLimit>>
moveVars == <<moveDb, lastMove>>
execVars == <<exec, calls>>
zammadVars == <<zammadIssues, tickets>>
restVars == <<requests, structVars, countVars, quotaVars, limitVars, moveVars, execVars, zammadVars>>
notRequests == <<marketVars, pullVars, structVars, countVars, quotaVars, limitVars, moveVars, execVars, zammadVars>>
notStruct == <<marketVars, pullVars, requests, countVars, quotaVars, limitVars, moveVars, execVars, zammadVars>>
notCounts == <<marketVars, pullVars, requests, structVars, quotaVars, limitVars, moveVars, execVars, zammadVars>>
notQuotas == <<marketVars, pullVars, requests, structVars, countVars, limitVars, moveVars, execVars, zammadVars>>
notLimits == <<marketVars, pullVars, requests, structVars, countVars, quotaVars, moveVars, execVars, zammadVars>>
notMarketOrRequests == <<pullVars, structVars, countVars, quotaVars, limitVars, moveVars, execVars, zammadVars>>
notMove == <<marketVars, pullVars, requests, structVars, countVars, quotaVars, limitVars, execVars, zammadVars>>
notExec == <<marketVars, pullVars, requests, structVars, countVars, quotaVars, limitVars, moveVars, zammadVars>>
notZammad == <<marketVars, pullVars, requests, structVars, countVars, quotaVars, limitVars, moveVars, execVars>>
vars == <<marketVars, pullVars, restVars>>

(***************************************************************************)
(* Bounds of the model.                                                    *)
(***************************************************************************)
MaxItems == 2
MaxSupportItems == 1
MaxPulls == 3
MaxRequests == 2
MaxRaceItems == 2
MaxGrants == 2
MaxResources == 2
MaxOfferings == 3
MaxLimitResources == 2
MaxLimitValue == 4
MaxMoveOrders == 2
MaxMoveItems == 2
MaxRetries == 12
MaxZammadIssues == 3

(***************************************************************************)
(* Values.                                                                 *)
(***************************************************************************)
\* The users of the one project of the model, each named by the one thing that
\* gives (or does not give) access: the is_staff flag, the is_support flag, the
\* owner role in the project's customer, the administrator or manager role in
\* the project, or nothing at all.
Users == {"staff", "support", "owner", "admin", "manager", "user"}

\* Offering types: the support-desk plugin, the SLURM remote plugin and a type
\* for which the plugin manager has no processor.
OfferingTypes == {"support", "slurm_remote", "unregistered"}

PlanIds == {"plan_a", "plan_b"}

\* A limits dictionary {'cpu': n} is its value n.
LimitValues == {10, 20}

\* 'old_limits' absent from OrderItem.attributes.
NoLimits == 0 - 1

\* Issue.backend_id as the support backend leaves it: NULL, empty or a key.
IssueBackendIds == {"NULL", "", "WAL TEST"}

NoIssue == [exists |-> FALSE, backend_id |-> "NULL", status |-> "new"]

TERMINAL_STATES == {"DONE", "ERRED", "TERMINATED"}

DB == [resources |-> resources, orders |-> orders, items |-> items, issues |-> issues]

Indexes(s) == 1..Len(s)

ItemsOf(db, o) == {j \in Indexes(db.items) : db.items[j].order = o}

Min(S) == CHOOSE x \in S : \A y \in S : x <= y

(***************************************************************************)
(* FSM transitions of the models: the states a transition may start from.  *)
(***************************************************************************)
\* OrderItem.set_state_executing: source PENDING or ERRED.
ItemCanExecute(state) == state \in {"PENDING", "ERRED"}

\* OrderItem.set_state_done and OrderItem.set_state_terminating: source EXECUTING.
ItemCanFinish(state) == state = "EXECUTING"

\* Order.approve and Order.reject: source REQUESTED_FOR_APPROVAL.
OrderCanReview(state) == state = "REQUESTED_FOR_APPROVAL"

(***************************************************************************)
(* post_save handlers of OrderItem and Order.                              *)
(***************************************************************************)
\* Faulty variants of complete_order_when_all_items_are_done.
complete_order_never(db, i) == db

complete_order_on_first_item(db, i) ==
    LET o == db.items[i].order IN
    IF db.items[i].state \in TERMINAL_STATES /\ db.orders[o].state = "EXECUTING"
    THEN [db EXCEPT !.orders[o].state = "DONE"]
    ELSE db

\* handlers.complete_order_when_all_items_are_done, called when the saved item's
\* state has changed (created is false, tracker.has_changed('state') is true).
complete_order_when_all_items_are_done(db, i) ==
    LET o == db.items[i].order IN
    IF db.items[i].state \notin TERMINAL_STATES THEN db
    ELSE IF db.orders[o].state # "EXECUTING" THEN db
    ELSE IF \E j \in ItemsOf(db, o) : db.items[j].state \notin TERMINAL_STATES THEN db
    ELSE [db EXCEPT !.orders[o].state = "DONE"]

\* OrderItem.save() after item i took state new: the post_save handlers run, and
\* return at once unless the state has changed.
SaveItemState(db, i, new) ==
    LET db1 == [db EXCEPT !.items[i].state = new] IN
    IF db.items[i].state = new THEN db1
    ELSE complete_order_when_all_items_are_done(db1, i)

RECURSIVE TerminateItems(_, _)
\* for item in order.items.all(): item.set_state_terminated(); item.save()
TerminateItems(db, S) ==
    IF S = {} THEN db
    ELSE LET j == Min(S) IN TerminateItems(SaveItemState(db, j, "TERMINATED"), S \ {j})

\* Faulty variant of reject_order: only the PENDING items are terminated.
reject_order_pending_only(db, o, previous) ==
    IF previous = "REQUESTED_FOR_APPROVAL" /\ db.orders[o].state = "REJECTED"
    THEN TerminateItems(db, {j \in ItemsOf(db, o) : db.items[j].state = "PENDING"})
    ELSE db

\* handlers.reject_order, called when the saved order's state has changed.
reject_order(db, o, previous) ==
    IF previous = "REQUESTED_FOR_APPROVAL" /\ db.orders[o].state = "REJECTED"
    THEN TerminateItems(db, ItemsOf(db, o))
    ELSE db

\* Order.save() after order o took state new.
SaveOrderState(db, o, new) ==
    LET db1 == [db EXCEPT !.orders[o].state = new] IN
    IF db.orders[o].state = new THEN db1
    ELSE reject_order(db1, o, db.orders[o].state)


(***************************************************************************)
(* Limit-update signal receivers (marketplace/handlers.py).                *)
(***************************************************************************)
\* Faulty variant of limit_update_succeeded: the item is completed, the limits are not
\* written to the resource.
limit_update_succeeded_keeps_limits(db, i) == SaveItemState(db, i, "DONE")

\* handlers.limit_update_succeeded: resource.limits = order_item.limits;
\* resource.save(); order_item.set_state_done(); order_item.save().
limit_update_succeeded(db, i) ==
    LET r == db.items[i].resource
        db1 == [db EXCEPT !.resources[r].limits = db.items[i].limits]
    IN SaveItemState(db1, i, "DONE")

\* Faulty variant of limit_update_failed: the message is stored, the state is left.
limit_update_failed_keeps_state(db, i, error_message) ==
    [db EXCEPT !.items[i].error_message = error_message]

\* handlers.limit_update_failed: order_item.set_state_erred();
\* order_item.error_message = error_message; order_item.save().
limit_update_failed(db, i, error_message) ==
    SaveItemState([db EXCEPT !.items[i].error_message = error_message], i, "ERRED")

(***************************************************************************)
(* marketplace/callbacks.py: a backend outcome for a resource is written   *)
(* to the resource and to its EXECUTING order item of the matching type.   *)
(***************************************************************************)
ExecutingItems(db, r, type) ==
    {j \in Indexes(db.items) :
        /\ db.items[j].resource = r
        /\ db.items[j].type = type
        /\ db.items[j].state = "EXECUTING"}

SetResourceState(db, r, new) == [db EXCEPT !.resources[r].state = new]

\* OrderItem.objects.get(resource=resource, type=type, state=EXECUTING) found
\* one item; ObjectDoesNotExist and MultipleObjectsReturned are logged and the
\* item part of the callback is skipped.
OneExecutingItem(db, r, type) == Cardinality(ExecutingItems(db, r, type)) = 1

\* The transition of that item.
SetExecutingItem(db, r, type, new) ==
    IF ~OneExecutingItem(db, r, type) THEN db
    ELSE SaveItemState(db, Min(ExecutingItems(db, r, type)), new)

resource_creation_succeeded(db, r) ==
    SetExecutingItem(SetResourceState(db, r, "OK"), r, "CREATE", "DONE")

resource_creation_failed(db, r) ==
    SetExecutingItem(SetResourceState(db, r, "ERRED"), r, "CREATE", "ERRED")

resource_creation_canceled(db, r) ==
    SetExecutingItem(SetResourceState(db, r, "TERMINATED"), r, "CREATE", "TERMINATED")

\* The plan of the order item becomes the plan of the resource, then the item is done.
resource_update_succeeded(db, r) ==
    LET S == ExecutingItems(db, r, "UPDATE")
        db1 == SetResourceState(db, r, "OK")
    IN IF ~OneExecutingItem(db, r, "UPDATE") THEN db1
       ELSE SaveItemState([db1 EXCEPT !.resources[r].plan = db.items[Min(S)].plan],
                          Min(S), "DONE")

resource_update_failed(db, r) ==
    SetExecutingItem(SetResourceState(db, r, "ERRED"), r, "UPDATE", "ERRED")

resource_update_canceled(db, r) ==
    SetExecutingItem(SetResourceState(db, r, "OK"), r, "UPDATE", "TERMINATED")

\* Sends signals.resource_limit_update_succeeded for the EXECUTING update item.
resource_limit_update_succeeded(db, r) ==
    LET S == ExecutingItems(db, r, "UPDATE")
        db1 == SetResourceState(db, r, "OK")
    IN IF ~OneExecutingItem(db, r, "UPDATE") THEN db1
       ELSE limit_update_succeeded(db1, Min(S))

\* Sends signals.resource_limit_update_failed for the EXECUTING update item.
resource_limit_update_failed(db, r, error_message) ==
    LET S == ExecutingItems(db, r, "UPDATE")
        db1 == SetResourceState(db, r, "ERRED")
    IN IF ~OneExecutingItem(db, r, "UPDATE") THEN db1
       ELSE limit_update_failed(db1, Min(S), error_message)

resource_deletion_succeeded(db, r) ==
    SetExecutingItem(SetResourceState(db, r, "TERMINATED"), r, "TERMINATE", "DONE")

resource_deletion_failed(db, r) ==
    SetExecutingItem(SetResourceState(db, r, "ERRED"), r, "TERMINATE", "ERRED")

resource_deletion_canceled(db, r) ==
    SetExecutingItem(SetResourceState(db, r, "OK"), r, "TERMINATE", "TERMINATED")

\* 'old_limits' in order_item.attributes
is_update_limit_order_item(item) == item.old_limits # NoLimits

\* callbacks.sync_order_item_state(order_item, new_state), new_state terminal.
sync_order_item_state(db, i, new) ==
    LET it == db.items[i]
        r == it.resource
    IN
    IF it.state = new \/ r = 0 THEN db
    ELSE IF it.type = "CREATE" THEN
        CASE new = "DONE" -> resource_creation_succeeded(db, r)
          [] new = "ERRED" -> resource_creation_failed(db, r)
          [] OTHER -> resource_creation_canceled(db, r)
    ELSE IF it.type = "UPDATE" /\ is_update_limit_order_item(it) THEN
        CASE new = "DONE" -> resource_limit_update_succeeded(db, r)
          [] new = "ERRED" -> resource_limit_update_failed(db, r, "canceled")
          [] OTHER -> resource_update_canceled(db, r)
    ELSE IF it.type = "UPDATE" THEN
        CASE new = "DONE" -> resource_update_succeeded(db, r)
          [] new = "ERRED" -> resource_update_failed(db, r)
          [] OTHER -> resource_update_canceled(db, r)
    ELSE
        CASE new = "DONE" -> resource_deletion_succeeded(db, r)
          [] new = "ERRED" -> resource_deletion_failed(db, r)
          [] OTHER -> resource_deletion_canceled(db, r)


(***************************************************************************)
(* Order item processors.  A processor returns the database it leaves and  *)
(* the exception it raised ("" when it returned normally).  inp is what    *)
(* the backend does: whether the request to it fails, and the backend_id   *)
(* the support backend gives the issue it creates.                         *)
(***************************************************************************)
ProcessorInputs == [raises : BOOLEAN, backend_id : IssueBackendIds]

Raised(db, message) == [db |-> db, exc |-> message]

Returned(db) == [db |-> db, exc |-> ""]

\* marketplace_support.utils.create_issue: the support.Issue whose resource is
\* the order item.
create_issue(db, i, backend_id) ==
    [db EXCEPT !.issues[i] = [exists |-> TRUE, backend_id |-> backend_id, status |-> "new"]]

\* utils.create_local_resource: the Resource of a create order item, in state
\* CREATING, linked to the item.
create_local_resource(db, i) ==
    LET it == db.items[i]
        new == [state |-> "CREATING", plan |-> it.plan, limits |-> it.limits,
                backend_id |-> "", otype |-> it.offering]
    IN [db EXCEPT !.resources = Append(db.resources, new),
                  !.items[i].resource = Len(db.resources) + 1]

\* processors.BaseCreateResourceProcessor.process_order_item with the support
\* IssueViewSet: the request creates the issue, then the resource is created.
BaseCreateResourceProcessor(db, i, inp) ==
    IF inp.raises THEN Raised(db, "request failed")
    ELSE Returned(create_local_resource(create_issue(db, i, inp.backend_id), i))

\* issue.backend_id or ''
BackendIdOrEmpty(backend_id) == IF backend_id \in {"NULL", ""} THEN "" ELSE backend_id

\* Faulty variant of CreateRequestProcessor: the issue's backend_id is not copied.
CreateRequestProcessor_no_backend_id(db, i, inp) == BaseCreateResourceProcessor(db, i, inp)

\* marketplace_support.processor.CreateRequestProcessor.process_order_item
CreateRequestProcessor(db, i, inp) ==
    LET res == BaseCreateResourceProcessor(db, i, inp) IN
    IF res.exc # "" THEN res
    ELSE IF ~res.db.issues[i].exists THEN res
    ELSE Returned([res.db EXCEPT
            !.resources[res.db.items[i].resource].backend_id =
                BackendIdOrEmpty(res.db.issues[i].backend_id)])

\* marketplace_support.processor.UpdateRequestProcessor.update_limits_process:
\* creates the issue and returns False (not done yet).
update_limits_process(db, i, inp) == create_issue(db, i, inp.backend_id)

\* processors.UpdateScopedResourceProcessor.process_order_item as the support
\* plugin specialises it: a limits update goes through update_limits_process, a
\* plan switch through the IssueViewSet; either leaves the resource UPDATING.
UpdateRequestProcessor(db, i, inp) ==
    LET r == db.items[i].resource IN
    IF inp.raises THEN Raised(db, "request failed")
    ELSE IF is_update_limit_order_item(db.items[i])
    THEN Returned(SetResourceState(update_limits_process(db, i, inp), r, "UPDATING"))
    ELSE Returned(SetResourceState(create_issue(db, i, inp.backend_id), r, "UPDATING"))

\* marketplace_support.processor.DeleteRequestProcessor (processors.
\* DeleteScopedResourceProcessor): the IssueViewSet answers 202 after creating the
\* issue, and the resource becomes TERMINATING.
DeleteRequestProcessor(db, i, inp) ==
    LET r == db.items[i].resource IN
    IF inp.raises THEN Raised(db, "request failed")
    ELSE Returned(SetResourceState(create_issue(db, i, inp.backend_id), r, "TERMINATING"))

\* processors.BasicCreateResourceProcessor, BasicUpdateResourceProcessor and
\* BasicDeleteResourceProcessor, registered for the SLURM remote plugin: no
\* backend request; the item stays EXECUTING until the provider reports.
BasicProcessor(db, i, inp) ==
    LET it == db.items[i] IN
    IF inp.raises THEN Raised(db, "processing failed")
    ELSE IF it.type = "CREATE" THEN Returned(create_local_resource(db, i))
    ELSE IF it.type = "UPDATE" THEN Returned(SetResourceState(db, it.resource, "UPDATING"))
    ELSE Returned(SetResourceState(db, it.resource, "TERMINATING"))

\* utils.get_order_item_processor: the offering is that of the resource when the
\* item has one; no processor for an offering type no plugin registered.
get_order_item_processor(db, i) ==
    LET it == db.items[i]
        otype == IF it.resource # 0 THEN db.resources[it.resource].otype ELSE it.offering
    IN [found |-> otype # "unregistered", otype |-> otype, type |-> it.type]

RunProcessor(p, db, i, inp) ==
    IF p.otype = "support" THEN
        CASE p.type = "CREATE" -> CreateRequestProcessor(db, i, inp)
          [] p.type = "UPDATE" -> UpdateRequestProcessor(db, i, inp)
          [] OTHER -> DeleteRequestProcessor(db, i, inp)
    ELSE BasicProcessor(db, i, inp)

\* Faulty variant of process_order_item: no except clause, the exception escapes and the
\* item keeps its state.
process_order_item_uncaught(db, i, inp) ==
    LET p == get_order_item_processor(db, i) IN
    IF ~p.found
    THEN SaveItemState([db EXCEPT !.items[i].error_message = "processor is not found"],
                       i, "ERRED")
    ELSE LET res == RunProcessor(p, db, i, inp) IN
         IF res.exc # "" THEN db ELSE res.db

\* utils.process_order_item
process_order_item(db, i, inp) ==
    LET p == get_order_item_processor(db, i) IN
    IF ~p.found
    THEN SaveItemState([db EXCEPT !.items[i].error_message = "processor is not found"],
                       i, "ERRED")
    ELSE LET res == RunProcessor(p, db, i, inp) IN
         IF res.exc # ""
         THEN SaveItemState([db EXCEPT !.items[i].error_message = res.exc], i, "ERRED")
         ELSE res.db

\* What processing item i does, for the record of the step.
ProcessOutcome(db, i, inp) ==
    IF ~get_order_item_processor(db, i).found THEN "no_processor"
    ELSE IF inp.raises THEN "exception"
    ELSE "ok"


(***************************************************************************)
(* Access to resources.                                                    *)
(***************************************************************************)
\* Active CustomerPermission rows of the project's customer and active
\* ProjectPermission rows of the project.
CustomerPermissionUsers == {"owner"}

ProjectPermissionUsers == {"admin", "manager"}

\* Faulty variant of filter_queryset_for_user: the permission subquery is not applied.
filter_queryset_for_user_unfiltered(queryset, user) == queryset

\* structure.managers.filter_queryset_for_user with Resource.Permissions
\* (customer_path = 'project__customer', project_path = 'project').
filter_queryset_for_user(queryset, user) ==
    IF user \in {"staff", "support"} THEN queryset
    ELSE {r \in queryset : user \in CustomerPermissionUsers \/ user \in ProjectPermissionUsers}

\* structure.permissions._has_admin_access: staff, customer owner, project
\* administrator or manager.  It backs permissions.user_can_terminate_resource
\* and structure.permissions.is_administrator.
has_admin_access(user) ==
    user = "staff" \/ user \in CustomerPermissionUsers \/ user \in ProjectPermissionUsers

\* utils.check_pending_order_item_exists
check_pending_order_item_exists(db, r) ==
    \E j \in Indexes(db.items) :
        db.items[j].resource = r /\ db.items[j].state \in {"PENDING", "EXECUTING"}

\* ResourceViewSet.terminate_validators: the status of the first validator that
\* refuses, 200 when all pass.
terminate_validators(db, r) ==
    IF db.resources[r].state \notin {"OK", "ERRED"} THEN 409
    ELSE IF check_pending_order_item_exists(db, r) THEN 400
    ELSE 200

\* Faulty variant of switch_plan_validators: the state validator also admits UPDATING.
switch_plan_validators_updating(db, r) ==
    IF db.resources[r].state \notin {"OK", "UPDATING"} THEN 409
    ELSE IF check_pending_order_item_exists(db, r) THEN 400
    ELSE 200

\* ResourceViewSet.switch_plan_validators = update_limits_validators
switch_plan_validators(db, r) ==
    IF db.resources[r].state # "OK" THEN 409
    ELSE IF check_pending_order_item_exists(db, r) THEN 400
    ELSE 200

\* ActionsViewSet: get_object() on the user's queryset (404), the action's
\* permissions (403), then the action's validators.
ResourceActionStatus(db, user, r, validators) ==
    IF r \notin filter_queryset_for_user(Indexes(db.resources), user) THEN 404
    ELSE IF ~has_admin_access(user) THEN 403
    ELSE validators

(***************************************************************************)
(* Orders.                                                                 *)
(***************************************************************************)
NewItem(type, offering, r, plan, old_plan, limits, old_limits) ==
    [order |-> 0, type |-> type, state |-> "PENDING", offering |-> offering,
     resource |-> r, plan |-> plan, old_plan |-> old_plan, limits |-> limits,
     old_limits |-> old_limits, error_message |-> ""]

\* utils.check_availability_of_auto_approving: staff always; for the others it
\* depends on settings and on flags of the project and the offering.
AutoApproving(user) == IF user = "staff" THEN {TRUE} ELSE BOOLEAN

\* tasks.approve_order: order.approve(); order.save(); process_order is
\* scheduled on commit.
approve_order(db, tq, o) ==
    [db |-> SaveOrderState(db, o, "EXECUTING"),
     tasks |-> tq \cup {[kind |-> "process_order", id |-> o, pos |-> 0]}]

\* serializers.create_order: the order with its items, approved at once when
\* auto-approving is available.
create_order(db, tq, new_items, auto) ==
    LET o == Len(db.orders) + 1
        db1 == [db EXCEPT
                  !.orders = Append(db.orders, [state |-> "REQUESTED_FOR_APPROVAL"]),
                  !.items = db.items \o [k \in Indexes(new_items) |->
                                            [new_items[k] EXCEPT !.order = o]],
                  !.issues = db.issues \o [k \in Indexes(new_items) |-> NoIssue]]
    IN IF auto THEN approve_order(db1, tq, o) ELSE [db |-> db1, tasks |-> tq]

\* The model keeps at most max order items.
Room(n, max) == Len(items) + n <= max

NoRequest == [op |-> "none", user |-> "", id |-> 0, status |-> 0, outcome |-> ""]

\* The steps whose outcome is kept in last until the next step: the requests on
\* resources and the processing of order items.
Recorded ==
    {"terminate", "switch_plan", "update_limits", "process", "item_approve",
     "order_approve", "order_reject"}

Commit(db, tq, op, user, id, status, outcome) ==
    /\ resources' = db.resources
    /\ orders' = db.orders
    /\ items' = db.items
    /\ issues' = db.issues
    /\ tasks' = tq
    /\ last' = IF op \in Recorded
               THEN [op |-> op, user |-> user, id |-> id, status |-> status,
                     outcome |-> outcome]
               ELSE NoRequest
    /\ UNCHANGED <<pullVars, restVars>>

\* Faulty variant of ResourceViewSet.switch_plan: the requested plan is written to the
\* resource when the order is made.
switch_plan_eager(db, tq, r, plan, auto) ==
    create_order([db EXCEPT !.resources[r].plan = plan], tq,
        <<NewItem("UPDATE", db.resources[r].otype, r, plan, db.resources[r].plan,
                  db.resources[r].limits, NoLimits)>>, auto)

\* ResourceViewSet.switch_plan, the body of the action.
switch_plan(db, tq, r, plan, auto) ==
    create_order(db, tq,
        <<NewItem("UPDATE", db.resources[r].otype, r, plan, db.resources[r].plan,
                  db.resources[r].limits, NoLimits)>>, auto)

\* ResourceViewSet.update_limits, the body of the action.
update_limits(db, tq, r, limits, auto) ==
    create_order(db, tq,
        <<NewItem("UPDATE", db.resources[r].otype, r, db.resources[r].plan, "",
                  limits, db.resources[r].limits)>>, auto)

\* ResourceViewSet.terminate, the body of the action.
terminate(db, tq, r, auto) ==
    create_order(db, tq,
        <<NewItem("TERMINATE", db.resources[r].otype, r, "", "", 0, NoLimits)>>, auto)

(***************************************************************************)
(* Requests on resources.                                                  *)
(***************************************************************************)
Terminate(user, r, max) ==
    LET status == ResourceActionStatus(DB, user, r, terminate_validators(DB, r)) IN
    IF status # 200 THEN Commit(DB, tasks, "terminate", user, r, status, "refused")
    ELSE /\ Room(1, max)
         /\ \E auto \in AutoApproving(user) :
              LET res == terminate(DB, tasks, r, auto) IN
              Commit(res.db, res.tasks, "terminate", user, r, 200, "ordered")

SwitchPlan(user, r, plan, max) ==
    LET status == ResourceActionStatus(DB, user, r, switch_plan_validators(DB, r)) IN
    IF status # 200 THEN Commit(DB, tasks, "switch_plan", user, r, status, "refused")
    ELSE /\ Room(1, max)
         /\ \E auto \in AutoApproving(user) :
              LET res == switch_plan(DB, tasks, r, plan, auto) IN
              Commit(res.db, res.tasks, "switch_plan", user, r, 200, "ordered")

UpdateLimits(user, r, limits, max) ==
    LET status == ResourceActionStatus(DB, user, r, switch_plan_validators(DB, r)) IN
    IF status # 200 THEN Commit(DB, tasks, "update_limits", user, r, status, "refused")
    ELSE /\ Room(1, max)
         /\ \E auto \in AutoApproving(user) :
              LET res == update_limits(DB, tasks, r, limits, auto) IN
              Commit(res.db, res.tasks, "update_limits", user, r, 200, "ordered")

\* OrderViewSet.create / CartItemViewSet.submit: an order of one or two create
\* items, made by a user of the project.
CreateOrder(user, offerings, max) ==
    /\ Room(Len(offerings), max)
    /\ \E auto \in AutoApproving(user) :
         LET new_items == [k \in Indexes(offerings) |->
                             NewItem("CREATE", offerings[k], 0, "plan_a", "", 10, NoLimits)]
             res == create_order(DB, tasks, new_items, auto)
         IN Commit(res.db, res.tasks, "create_order", user, Len(orders) + 1, 201, "ordered")


(***************************************************************************)
(* Requests on orders and order items.                                     *)
(***************************************************************************)
\* OrderViewSet.approve, behind approve_validators.
OrderApprove(o) ==
    IF ~OrderCanReview(orders[o].state)
    THEN Commit(DB, tasks, "order_approve", "", o, 409, "refused")
    ELSE LET res == approve_order(DB, tasks, o) IN
         Commit(res.db, res.tasks, "order_approve", "", o, 200, "approved")

\* Faulty variant of OrderViewSet.reject: reject_validators is empty.
OrderReject_unvalidated(o) ==
    Commit(SaveOrderState(DB, o, "REJECTED"), tasks, "order_reject", "", o, 200, "rejected")

\* OrderViewSet.reject, behind reject_validators.
OrderReject(o) ==
    IF ~OrderCanReview(orders[o].state)
    THEN Commit(DB, tasks, "order_reject", "", o, 409, "refused")
    ELSE Commit(SaveOrderState(DB, o, "REJECTED"), tasks, "order_reject", "", o, 200,
                "rejected")

\* The order of item i is reviewed as a whole once none of its items is PENDING.
ReviewOrderAfterItem(db, i, new) ==
    LET o == db.items[i].order IN
    IF /\ db.orders[o].state = "REQUESTED_FOR_APPROVAL"
       /\ ~\E j \in ItemsOf(db, o) : db.items[j].state = "PENDING"
    THEN SaveOrderState(db, o, new)
    ELSE db

\* OrderItemViewSet.reject
ItemReject(i) ==
    IF items[i].state = "EXECUTING" THEN
        IF items[i].resource = 0
        THEN Commit(DB, tasks, "item_reject", "", i, 400, "refused")
        ELSE Commit(sync_order_item_state(DB, i, "TERMINATED"), tasks,
                    "item_reject", "", i, 200, "synced")
    ELSE IF items[i].state = "PENDING" THEN
        Commit(ReviewOrderAfterItem(SaveItemState(DB, i, "TERMINATED"), i, "REJECTED"),
               tasks, "item_reject", "", i, 200, "rejected")
    ELSE Commit(DB, tasks, "item_reject", "", i, 400, "refused")

\* Faulty variant of OrderItemViewSet.approve: the processing of the item runs
\* inside the approving transaction instead of being scheduled on its commit.
ItemApprove_in_transaction(i) ==
    IF items[i].state = "EXECUTING" THEN
        IF items[i].resource = 0
        THEN Commit(DB, tasks, "item_approve", "", i, 400, "refused")
        ELSE Commit(sync_order_item_state(DB, i, "DONE"), tasks,
                    "item_approve", "", i, 200, "synced")
    ELSE IF items[i].state = "PENDING" THEN
        Commit(process_order_item(
                   ReviewOrderAfterItem(SaveItemState(DB, i, "EXECUTING"), i, "EXECUTING"),
                   i, [raises |-> FALSE, backend_id |-> "WAL TEST"]),
               tasks, "item_approve", "", i, 200, "approved")
    ELSE Commit(DB, tasks, "item_approve", "", i, 400, "refused")

\* OrderItemViewSet.approve
ItemApprove(i) ==
    IF items[i].state = "EXECUTING" THEN
        IF items[i].resource = 0
        THEN Commit(DB, tasks, "item_approve", "", i, 400, "refused")
        ELSE Commit(sync_order_item_state(DB, i, "DONE"), tasks,
                    "item_approve", "", i, 200, "synced")
    ELSE IF items[i].state = "PENDING" THEN
        Commit(ReviewOrderAfterItem(SaveItemState(DB, i, "EXECUTING"), i, "EXECUTING"),
               tasks \cup {[kind |-> "process_order_item", id |-> i, pos |-> 0]},
               "item_approve", "", i, 200, "approved")
    ELSE Commit(DB, tasks, "item_approve", "", i, 400, "refused")

\* OrderItemViewSet.set_state_executing
SetStateExecuting(i) ==
    IF items[i].offering # "slurm_remote"
    THEN Commit(DB, tasks, "set_state_executing", "", i, 405, "refused")
    ELSE IF ~ItemCanExecute(items[i].state)
    THEN Commit(DB, tasks, "set_state_executing", "", i, 400, "refused")
    ELSE Commit(SaveItemState(DB, i, "EXECUTING"), tasks, "set_state_executing", "", i,
                200, "set")

\* OrderItemViewSet.set_state_done
SetStateDone(i) ==
    IF items[i].offering # "slurm_remote"
    THEN Commit(DB, tasks, "set_state_done", "", i, 405, "refused")
    ELSE IF ~ItemCanFinish(items[i].state)
    THEN Commit(DB, tasks, "set_state_done", "", i, 400, "refused")
    ELSE IF items[i].resource = 0
    THEN Commit(DB, tasks, "set_state_done", "", i, 500, "no_resource")
    ELSE Commit(sync_order_item_state(DB, i, "DONE"), tasks, "set_state_done", "", i,
                200, "set")

\* OrderItemViewSet.set_state_erred
SetStateErred(i) ==
    IF items[i].offering # "slurm_remote"
    THEN Commit(DB, tasks, "set_state_erred", "", i, 405, "refused")
    ELSE IF items[i].resource = 0 /\ items[i].state # "ERRED"
    THEN Commit(DB, tasks, "set_state_erred", "", i, 500, "no_resource")
    ELSE Commit([sync_order_item_state(DB, i, "ERRED") EXCEPT
                    !.items[i].error_message = "reported"],
                tasks, "set_state_erred", "", i, 200, "set")

(***************************************************************************)
(* Celery tasks.                                                           *)
(***************************************************************************)
\* The items of order o that tasks.process_order has not reached yet.
Unprocessed(t) == {j \in ItemsOf(DB, t.id) : j > t.pos}

\* tasks.process_order, one item of its loop: item.set_state_executing();
\* item.save(); utils.process_order_item(item, user).  TransitionNotAllowed ends
\* the task.
RunProcessOrder(t, inp) ==
    /\ t \in tasks
    /\ t.kind = "process_order"
    /\ LET i == Min(Unprocessed(t))
           rest == IF Unprocessed(t) = {i} THEN tasks \ {t}
                   ELSE (tasks \ {t}) \cup {[t EXCEPT !.pos = i]}
       IN IF ~ItemCanExecute(items[i].state)
          THEN Commit(DB, tasks \ {t}, "process", "", i, 0, "transition_not_allowed")
          ELSE LET db1 == SaveItemState(DB, i, "EXECUTING") IN
               Commit(process_order_item(db1, i, inp), rest, "process", "", i, 0,
                      ProcessOutcome(db1, i, inp))

\* tasks.process_order_item, scheduled by the approval of one item.
RunProcessOrderItem(t, inp) ==
    /\ t \in tasks
    /\ t.kind = "process_order_item"
    /\ Commit(process_order_item(DB, t.id, inp), tasks \ {t}, "process", "", t.id, 0,
              ProcessOutcome(DB, t.id, inp))

(***************************************************************************)
(* The support desk.                                                       *)
(***************************************************************************)
\* marketplace_support.handlers.update_order_item_if_issue_was_complete, the
\* post_save handler of support.Issue: when the status changed and the issue is
\* resolved (status of type RESOLVED) the item is synchronised to DONE, when it
\* is canceled (type CANCELED) to ERRED; a status of another type changes
\* nothing.
update_order_item_if_issue_was_complete(db, i, status) ==
    CASE status = "resolved" -> sync_order_item_state(db, i, "DONE")
      [] status = "canceled" -> sync_order_item_state(db, i, "ERRED")
      [] OTHER -> db

\* The support backend reports a new status of the issue of order item i.
IssueStatusChange(i, status) ==
    /\ issues[i].exists
    /\ issues[i].status # status
    /\ Commit(update_order_item_if_issue_was_complete(
                  [DB EXCEPT !.issues[i].status = status], i, status),
              tasks, "issue", "", i, 0, status)

(***************************************************************************)
(* The specification of the order state machine.                           *)
(***************************************************************************)
InitResource ==
    [state |-> "OK", plan |-> "plan_a", limits |-> 10, backend_id |-> "", otype |-> "support"]

(***************************************************************************)
(* Remote offerings (marketplace_remote): the local copy of an offering of *)
(* another Waldur and its plans, identified by backend_id = remote uuid.   *)
(***************************************************************************)
RemotePlanIds == {"uuid1", "uuid2", "uuid3"}

\* The plans in remote_offering['plans'].
Published(rem) == {u \in RemotePlanIds : rem[u].published}

LocalBackendIds(ps) == {ps[k].backend_id : k \in Indexes(ps)}

RECURSIVE import_plans_reversed(_, _, _)
\* Faulty variant of import_plans: the local plan takes the uuid of another remote plan
\* of the same response when there is one.
import_plans_reversed(ps, rem, new) ==
    IF new = {} THEN ps
    ELSE LET u == CHOOSE x \in new : TRUE
             other == IF new = {u} THEN u ELSE CHOOSE x \in new \ {u} : TRUE
         IN import_plans_reversed(
                Append(ps, [backend_id |-> other, archived |-> rem[u].archived]),
                rem, new \ {u})

RECURSIVE import_plans(_, _, _)
\* marketplace_remote.utils.import_plans: Plan.objects.create(offering=...,
\* backend_id=remote_plan['uuid'], **PLAN_FIELDS) for each remote plan in new.
import_plans(ps, rem, new) ==
    IF new = {} THEN ps
    ELSE LET u == CHOOSE x \in new : TRUE IN
         import_plans(Append(ps, [backend_id |-> u, archived |-> rem[u].archived]),
                      rem, new \ {u})

\* marketplace_remote.utils.pull_fields for the plan fields: a field that
\* differs is overwritten by the remote value.
pull_fields(local_plan, remote_plan) ==
    IF remote_plan.archived # local_plan.archived
    THEN [local_plan EXCEPT !.archived = remote_plan.archived]
    ELSE local_plan

\* OfferingPullTask.pull, the plans: a stale local plan is archived, a plan both
\* sides know is refreshed, a new remote plan is created locally.
pull_plans(ps, rem) ==
    LET kept == [k \in Indexes(ps) |->
                    IF ps[k].backend_id \notin Published(rem)
                    THEN [ps[k] EXCEPT !.archived = TRUE]
                    ELSE pull_fields(ps[k], rem[ps[k].backend_id])]
    IN import_plans(kept, rem, Published(rem) \ LocalBackendIds(ps))

\* The remote provider publishes, withdraws, archives or restores a plan.
RemoteChange(u, rec) ==
    /\ remote[u] # rec
    /\ remote' = [remote EXCEPT ![u] = rec]
    /\ UNCHANGED <<marketVars, plans, pulls, restVars>>

\* OfferingPullTask.pull
PullOffering ==
    /\ pulls < MaxPulls
    /\ pulls' = pulls + 1
    /\ plans' = pull_plans(plans, remote)
    /\ UNCHANGED <<marketVars, remote, restVars>>

\* ProviderPlanViewSet.archive behind validate_plan_archive.
ArchivePlan(k) ==
    /\ ~plans[k].archived
    /\ plans' = [plans EXCEPT ![k].archived = TRUE]
    /\ UNCHANGED <<marketVars, remote, pulls, restVars>>

RemotePlan == [published : BOOLEAN, archived : BOOLEAN]

InitPull ==
    /\ plans = <<>>
    /\ remote = [u \in RemotePlanIds |-> [published |-> FALSE, archived |-> FALSE]]
    /\ pulls = 0

(***************************************************************************)
(* Permissions on customers, projects and offerings.  One customer with    *)
(* one project and two offerings.  Only the rows with is_active = True are *)
(* kept: revoking sets is_active to None, and no operation below reads a   *)
(* row that is not active.  permissions[k] is the number of active rows    *)
(* with the structure, user and role of k.                                 *)
(***************************************************************************)
StructUsers == {"alice", "bob"}
Offerings == {"offering1", "offering2"}
Structures == {"customer", "project"} \cup Offerings
SERVICE_MANAGER == "service_manager"

\* CustomerRole.CHOICES, ProjectRole.CHOICES; an OfferingPermission has no role.
RolesOf(structure) ==
    IF structure = "customer" THEN {"owner", SERVICE_MANAGER}
    ELSE IF structure = "project" THEN {"admin"}
    ELSE {"none"}

PermissionKeys ==
    {k \in [structure : Structures, user : StructUsers,
            role : {"owner", SERVICE_MANAGER, "admin", "none"}] :
        k.role \in RolesOf(k.structure)}

Key(structure, user, role) == [structure |-> structure, user |-> user, role |-> role]

\* PermissionMixin.get_active_permissions(user, role): the number of rows.
get_active_permissions(perms, structure, user, role) == perms[Key(structure, user, role)]

\* PermissionMixin.has_user(user, role) with timestamp=False
has_user(perms, structure, user, role) ==
    get_active_permissions(perms, structure, user, role) > 0

\* self.permissions.create(...): one more active row.
create_permission(perms, structure, user, role) ==
    [perms EXCEPT ![Key(structure, user, role)] = @ + 1]

\* Meta.unique_together = (structure, 'role', 'user', 'is_active'): the insert of
\* an active row is accepted when no active row with the same key exists.
unique_together(perms, structure, user, role) ==
    get_active_permissions(perms, structure, user, role) = 0

RECURSIVE add_user(_, _, _, _)
\* handlers.add_service_manager_role_to_customer, receiver of structure_role_granted
\* sent by an offering.
add_service_manager_role_to_customer(perms, user) ==
    IF ~has_user(perms, "customer", user, SERVICE_MANAGER)
    THEN add_user(perms, "customer", user, SERVICE_MANAGER).perms
    ELSE perms

\* structure_role_granted.send(sender=self.__class__, ...)
structure_role_granted(perms, structure, user, role) ==
    IF structure \in Offerings THEN add_service_manager_role_to_customer(perms, user)
    ELSE perms

\* PermissionMixin.add_user: (permission, created)
add_user(perms, structure, user, role) ==
    IF get_active_permissions(perms, structure, user, role) > 0
    THEN [perms |-> perms, created |-> FALSE]
    ELSE [perms |-> structure_role_granted(
                        create_permission(perms, structure, user, role),
                        structure, user, role),
          created |-> TRUE]

RECURSIVE remove_user(_, _, _, _)
RECURSIVE revoke_offering_permissions(_, _, _)
\* for perm in OfferingPermission.objects.filter(...is_active=True): perm.revoke()
revoke_offering_permissions(perms, user, S) ==
    IF S = {} THEN perms
    ELSE LET o == CHOOSE x \in S : TRUE IN
         revoke_offering_permissions(
             IF has_user(perms, o, user, "none") THEN remove_user(perms, o, user, "none")
             ELSE perms,
             user, S \ {o})

\* handlers.drop_service_manager_role_from_customer, receiver of
\* structure_role_revoked sent by an offering.
drop_service_manager_role_from_customer(perms, user) ==
    IF ~\E o \in Offerings : has_user(perms, o, user, "none")
    THEN remove_user(perms, "customer", user, SERVICE_MANAGER)
    ELSE perms

\* Faulty variant: the offering permissions outlive the role.
drop_offering_permissions_never(perms, user, role) == perms

\* handlers.drop_offering_permissions_if_service_manager_role_is_revoked, receiver
\* of structure_role_revoked sent by a customer.
drop_offering_permissions_if_service_manager_role_is_revoked(perms, user, role) ==
    IF role # SERVICE_MANAGER THEN perms
    ELSE revoke_offering_permissions(perms, user, Offerings)

\* PermissionMixin.log_role_revoked: structure_role_revoked.send(...)
log_role_revoked(perms, structure, user, role) ==
    IF structure \in Offerings THEN drop_service_manager_role_from_customer(perms, user)
    ELSE IF structure = "customer"
    THEN drop_offering_permissions_if_service_manager_role_is_revoked(perms, user, role)
    ELSE perms

\* PermissionMixin.remove_user(user, role): the active rows are made inactive,
\* then the revocation is signalled for each of them.
remove_user(perms, structure, user, role) ==
    IF get_active_permissions(perms, structure, user, role) = 0 THEN perms
    ELSE log_role_revoked([perms EXCEPT ![Key(structure, user, role)] = 0],
                          structure, user, role)

NoGrant == [structure |-> "", user |-> "", role |-> "", outcome |-> "none",
            created |-> FALSE, signal |-> FALSE]

Grant(k, outcome, created) ==
    [structure |-> k.structure, user |-> k.user, role |-> k.role, outcome |-> outcome,
     created |-> created, signal |-> created]

\* add_user served alone, in one transaction.
AddUser(k) ==
    LET res == add_user(permissions, k.structure, k.user, k.role) IN
    /\ permissions' = res.perms
    /\ lastGrant' = Grant(k, IF res.created THEN "created" ELSE "existing", res.created)
    /\ UNCHANGED <<grants, notStruct>>

\* remove_user served alone.
RemoveUser(k) ==
    /\ permissions' = remove_user(permissions, k.structure, k.user, k.role)
    /\ lastGrant' = NoGrant
    /\ UNCHANGED <<grants, notStruct>>

\* add_user served next to other transactions, first half: get_active_permissions
\* found no row.  (When it finds one the call ends at once, as in AddUser.)
BeginAddUser(k) ==
    /\ Cardinality(grants) < MaxGrants
    /\ get_active_permissions(permissions, k.structure, k.user, k.role) = 0
    /\ \E id \in 1..MaxGrants :
          /\ \A g \in grants : g.id # id
          /\ grants' = grants \cup {[id |-> id, key |-> k]}
    /\ UNCHANGED <<permissions, lastGrant, notStruct>>

\* Second half: the insert.  The database refuses it with IntegrityError when
\* another transaction has committed the same active row in between; the
\* transaction is rolled back and the signal is not sent.
FinishAddUser(g) ==
    /\ g \in grants
    /\ grants' = grants \ {g}
    /\ LET k == g.key IN
       IF unique_together(permissions, k.structure, k.user, k.role)
       THEN /\ permissions' = structure_role_granted(
                                  create_permission(permissions, k.structure, k.user, k.role),
                                  k.structure, k.user, k.role)
            /\ lastGrant' = Grant(k, "created", TRUE)
       ELSE /\ permissions' = permissions
            /\ lastGrant' = Grant(k, "integrity_error", FALSE)
    /\ UNCHANGED notStruct

InitStructure ==
    /\ permissions = [k \in PermissionKeys |-> 0]
    /\ grants = {}
    /\ lastGrant = NoGrant

(***************************************************************************)
(* Aggregate resource counts.  Three projects, the third in a customer of  *)
(* its own, and two categories.  A counter that has no row counts as 0.    *)
(***************************************************************************)
Projects == {"project1", "project2", "project3"}
Customers == {"customer1", "customer2"}
Categories == {"category1", "category2"}
ResourceIds == 1..MaxResources

\* Project.customer
CustomerOf(project) == IF project = "project3" THEN "customer2" ELSE "customer1"

NoResource == [project |-> "", category |-> "", state |-> "ABSENT"]

\* apply_change(delta) in update_aggregate_resources_count_when_resource_is_updated:
\* the counters of the project and of the customer of the resource, for its category.
apply_change(agg, row, delta) ==
    [sc \in DOMAIN agg |->
        IF sc[1] \in {row.project, CustomerOf(row.project)} /\ sc[2] = row.category
        THEN IF delta = 1 THEN agg[sc] + 1
             ELSE IF agg[sc] - 1 > 0 THEN agg[sc] - 1 ELSE 0
        ELSE agg[sc]]

\* handlers.update_aggregate_resources_count_when_resource_is_updated, the
\* post_save receiver of Resource; previous is the state before the save.
update_aggregate_resources_count_when_resource_is_updated(agg, row, created, previous) ==
    IF created /\ row.state # "TERMINATED" THEN apply_change(agg, row, 1)
    ELSE IF previous # row.state /\ row.state = "TERMINATED" THEN apply_change(agg, row, 0 - 1)
    ELSE agg

\* The resources a recount finds for a scope and a category.
CountedResources(inv, scope, category) ==
    {id \in ResourceIds :
        /\ inv[id].state \notin {"ABSENT", "TERMINATED"}
        /\ inv[id].category = category
        /\ scope \in {inv[id].project, CustomerOf(inv[id].project)}}

\* handlers.update_aggregate_resources_count: every counter is recomputed.
update_aggregate_resources_count(inv) ==
    [sc \in (Projects \cup Customers) \X Categories |->
        Cardinality(CountedResources(inv, sc[1], sc[2]))]

\* A resource is created (Resource.save() with created = True).
CreateCountedResource(id, project, category, state) ==
    /\ inventory[id] = NoResource
    /\ LET row == [project |-> project, category |-> category, state |-> state] IN
       /\ inventory' = [inventory EXCEPT ![id] = row]
       /\ aggregate' = update_aggregate_resources_count_when_resource_is_updated(
                           aggregate, row, TRUE, "")
    /\ UNCHANGED notCounts

\* The state of a resource changes and the resource is saved.  TERMINATED is final.
ChangeResourceState(id, state) ==
    /\ inventory[id].state \notin {"ABSENT", "TERMINATED", state}
    /\ LET row == [inventory[id] EXCEPT !.state = state] IN
       /\ inventory' = [inventory EXCEPT ![id] = row]
       /\ aggregate' = update_aggregate_resources_count_when_resource_is_updated(
                           aggregate, row, FALSE, inventory[id].state)
    /\ UNCHANGED notCounts

\* utils.move_resource: resource.project = project;
\* resource.save(update_fields=['project']).  The receiver runs on this save too.
\* The resource has no scope, orders or invoice items.
move_resource(inv, agg, id, project) ==
    LET row == [inv[id] EXCEPT !.project = project] IN
    [inventory |-> [inv EXCEPT ![id] = row],
     aggregate |-> update_aggregate_resources_count_when_resource_is_updated(
                       agg, row, FALSE, inv[id].state)]

MoveResource(id, project) ==
    /\ inventory[id].state # "ABSENT"
    /\ LET res == move_resource(inventory, aggregate, id, project) IN
       /\ inventory' = res.inventory
       /\ aggregate' = res.aggregate
    /\ UNCHANGED notCounts

\* The receiver update_aggregate_resources_count runs.
RecountResources ==
    /\ aggregate' = update_aggregate_resources_count(inventory)
    /\ UNCHANGED <<inventory, notCounts>>

InitCounts ==
    /\ inventory = [id \in ResourceIds |-> NoResource]
    /\ aggregate = [sc \in (Projects \cup Customers) \X Categories |-> 0]

NextCounts ==
    \/ \E id \in ResourceIds, p \in Projects, c \in Categories, st \in {"CREATING", "OK"} :
          CreateCountedResource(id, p, c, st)
    \/ \E id \in ResourceIds, st \in {"CREATING", "OK", "TERMINATED"} :
          ChangeResourceState(id, st)
    \/ \E id \in ResourceIds, p \in Projects : MoveResource(id, p)
    \/ RecountResources

(***************************************************************************)
(* The offering_count quota of the categories.                             *)
(***************************************************************************)
OfferingIds == 1..MaxOfferings
OfferingStates == {"DRAFT", "ACTIVE", "PAUSED", "ARCHIVED"}
NoOffering == [category |-> "", state |-> "ABSENT"]

\* category.add_quota_usage(Category.Quotas.offering_count, delta)
add_quota_usage(usage, category, delta) == [usage EXCEPT ![category] = @ + delta]

\* get_delta() in update_category_quota_when_offering_is_created; 0 stands for None.
get_delta(row, created, previous) ==
    IF created THEN (IF row.state = "ACTIVE" THEN 1 ELSE 0)
    ELSE IF previous # row.state
         THEN IF row.state = "ACTIVE" THEN 1
              ELSE IF previous = "ACTIVE" THEN 0 - 1
              ELSE 0
         ELSE 0

\* handlers.update_category_quota_when_offering_is_created, the post_save receiver
\* of Offering; previous is the state before the save.
update_category_quota_when_offering_is_created(usage, row, created, previous) ==
    LET delta == get_delta(row, created, previous) IN
    IF delta # 0 THEN add_quota_usage(usage, row.category, delta) ELSE usage

\* Faulty variant of update_category_quota_when_offering_is_deleted: the usage is
\* kept when an offering is deleted.
update_category_quota_when_offering_is_deleted_keeps_usage(usage, row) == usage

\* handlers.update_category_quota_when_offering_is_deleted
update_category_quota_when_offering_is_deleted(usage, row) ==
    IF row.state = "ACTIVE" THEN add_quota_usage(usage, row.category, 0 - 1) ELSE usage

\* The ACTIVE offerings of a category.
ActiveOfferings(rows, category) ==
    {id \in OfferingIds : rows[id].category = category /\ rows[id].state = "ACTIVE"}

\* handlers.update_category_offerings_count: the usage of every category is set to
\* the number of its ACTIVE offerings.
update_category_offerings_count(rows) ==
    [c \in Categories |-> Cardinality(ActiveOfferings(rows, c))]

\* An offering is created.
CreateOffering(id, category, state) ==
    /\ offeringRows[id] = NoOffering
    /\ LET row == [category |-> category, state |-> state] IN
       /\ offeringRows' = [offeringRows EXCEPT ![id] = row]
       /\ offering_count' = update_category_quota_when_offering_is_created(
                                offering_count, row, TRUE, "")
    /\ UNCHANGED notQuotas

\* The state of an offering changes and the offering is saved.
ChangeOfferingState(id, state) ==
    /\ offeringRows[id].state \notin {"ABSENT", state}
    /\ LET row == [offeringRows[id] EXCEPT !.state = state] IN
       /\ offeringRows' = [offeringRows EXCEPT ![id] = row]
       /\ offering_count' = update_category_quota_when_offering_is_created(
                                offering_count, row, FALSE, offeringRows[id].state)
    /\ UNCHANGED notQuotas

\* An offering is deleted.
DeleteOffering(id) ==
    /\ offeringRows[id] # NoOffering
    /\ offeringRows' = [offeringRows EXCEPT ![id] = NoOffering]
    /\ offering_count' = update_category_quota_when_offering_is_deleted(
                             offering_count, offeringRows[id])
    /\ UNCHANGED notQuotas

\* The receiver update_category_offerings_count runs.
RecountOfferings ==
    /\ offering_count' = update_category_offerings_count(offeringRows)
    /\ UNCHANGED <<offeringRows, notQuotas>>

InitQuotas ==
    /\ offeringRows = [id \in OfferingIds |-> NoOffering]
    /\ offering_count = [c \in Categories |-> 0]

NextQuotas ==
    \/ \E id \in OfferingIds, c \in Categories, st \in {"DRAFT", "ACTIVE"} :
          CreateOffering(id, c, st)
    \/ \E id \in OfferingIds, st \in OfferingStates : ChangeOfferingState(id, st)
    \/ \E id \in OfferingIds : DeleteOffering(id)
    \/ RecountOfferings

(***************************************************************************)
(* The safety limit of an offering component.  allocated[r] is             *)
(* resource.limits.get(component.type, 0) of resource r of the offering.   *)
(***************************************************************************)
LimitResources == 1..MaxLimitResources

\* component.max_available_limit
max_available_limit == 4

RECURSIVE SumOver(_, _)
SumOver(f, S) ==
    IF S = {} THEN 0
    ELSE LET x == CHOOSE y \in S : TRUE IN f[x] + SumOver(f, S \ {x})

\* current_total_limits in validate_maximum_available_limit: the limits of the
\* resources of the offering other than the given one.
current_total_limits(alloc, resource) == SumOver(alloc, LimitResources \ {resource})

\* utils.validate_maximum_available_limit: TRUE when it returns, FALSE when it
\* raises ValidationError.
validate_maximum_available_limit(value, alloc, resource) ==
    IF max_available_limit = 0 THEN TRUE
    ELSE ~(current_total_limits(alloc, resource) + value >= max_available_limit)

NoLimitRequest == [op |-> "none", resource |-> 0, value |-> 0, others |-> 0,
                   accepted |-> FALSE]

\* An update_limits request for resource r: validate_limits runs on the requested
\* value, and when it passes the order item is created with the new limits; the
\* limits of the resource stay as they are until the item is done.
RequestLimit(r, value) ==
    /\ ~\E o \in limitOrders : o.resource = r
    /\ LET accepted == validate_maximum_available_limit(value, allocated, r) IN
       /\ limitOrders' = IF accepted
                         THEN limitOrders \cup {[resource |-> r, value |-> value]}
                         ELSE limitOrders
       /\ lastLimit' = [op |-> "request", resource |-> r, value |-> value,
                        others |-> current_total_limits(allocated, r),
                        accepted |-> accepted]
    /\ UNCHANGED <<allocated, notLimits>>

\* The order item is done: handlers.limit_update_succeeded writes its limits to
\* the resource.
ApplyLimit(o) ==
    /\ o \in limitOrders
    /\ allocated' = [allocated EXCEPT ![o.resource] = o.value]
    /\ limitOrders' = limitOrders \ {o}
    /\ lastLimit' = NoLimitRequest
    /\ UNCHANGED notLimits

\* The order item fails: handlers.limit_update_failed leaves the limits.
DropLimit(o) ==
    /\ o \in limitOrders
    /\ limitOrders' = limitOrders \ {o}
    /\ lastLimit' = NoLimitRequest
    /\ UNCHANGED <<allocated, notLimits>>

InitLimits ==
    /\ allocated = [r \in LimitResources |-> 0]
    /\ limitOrders = {}
    /\ lastLimit = NoLimitRequest

NextLimits ==
    \/ \E r \in LimitResources, v \in 1..MaxLimitValue : RequestLimit(r, v)
    \/ \E o \in limitOrders : ApplyLimit(o)
    \/ \E o \in limitOrders : DropLimit(o)

(***************************************************************************)
(* Moving a resource to another project.  One resource with its scope, the *)
(* orders that hold its order items and its invoice items.  moveDb holds   *)
(* the rows move_resource reads and writes.                                *)
(***************************************************************************)
MoveOrderIds == 1..MaxMoveOrders
MoveItemIds == 1..MaxMoveItems
NoProject == "none"

\* invoice__state=PENDING for an invoice item: its invoice is the one of the
\* customer of its project.
InvoicePending(db, k) ==
    /\ db.invoice_items[k].project # NoProject
    /\ db.invoices[CustomerOf(db.invoice_items[k].project)] = "PENDING"

RECURSIVE move_orders(_, _, _)
\* for order in Order.objects.filter(pk__in=order_ids): an order that also holds
\* items of other resources raises MoveResourceException, any other order takes
\* the project.
move_orders(db, S, project) ==
    IF S = {} THEN [db |-> db, exc |-> ""]
    ELSE LET o == Min(S) IN
         IF db.orders[o].shared
         THEN [db |-> db, exc |-> "related orders are related to other resources"]
         ELSE move_orders([db EXCEPT !.orders[o].project = project], S \ {o}, project)

RECURSIVE move_invoice_items(_, _, _)
\* for invoice_item in InvoiceItem.objects.filter(resource=resource,
\* invoice__state=PENDING, project=old_project): a target invoice (the invoice of
\* the customer of the new project) that is not PENDING raises
\* MoveResourceException, otherwise the item takes the project and that invoice.
move_invoice_items(db, S, project) ==
    IF S = {} THEN [db |-> db, exc |-> ""]
    ELSE LET k == Min(S) IN
         IF db.invoices[CustomerOf(project)] # "PENDING"
         THEN [db |-> db, exc |-> "invoice items moving is not possible"]
         ELSE move_invoice_items([db EXCEPT !.invoice_items[k].project = project],
                                 S \ {k}, project)

\* The body of utils.move_resource, statement by statement: the rows as the last
\* statement reached has left them, and the exception raised, if any.
move_resource_body(db, project) ==
    LET old_project == db.resource
        db1 == [db EXCEPT !.resource = project]
        db2 == IF db1.scope # NoProject
               THEN [db1 EXCEPT !.scope = project,
                                !.offering = IF @ # NoProject THEN project ELSE @]
               ELSE db1
        res3 == move_orders(db2, {o \in MoveOrderIds : db2.orders[o].project # NoProject},
                            project)
    IN IF res3.exc # "" THEN res3
       ELSE move_invoice_items(
                res3.db,
                {k \in MoveItemIds : /\ res3.db.invoice_items[k].project = old_project
                                     /\ InvoicePending(res3.db, k)},
                project)

\* Faulty variant of move_resource: without @transaction.atomic the statements
\* executed before the exception stay written.
move_resource_not_atomic(db, project) == move_resource_body(db, project)

\* utils.move_resource under @transaction.atomic: an exception rolls back every
\* statement of the body.
move_resource_atomic(db, project) ==
    LET res == move_resource_body(db, project) IN
    IF res.exc # "" THEN [db |-> db, exc |-> res.exc] ELSE res

NoMove == [op |-> "none", project |-> "", status |-> 0, error_message |-> ""]

\* ResourceViewSet.move_resource: MoveResourceException is answered with 409.
MoveResourceRequest(project) ==
    LET res == move_resource_atomic(moveDb, project) IN
    /\ moveDb' = res.db
    /\ lastMove' = [op |-> "move", project |-> project,
                    status |-> IF res.exc # "" THEN 409 ELSE 200,
                    error_message |-> res.exc]
    /\ UNCHANGED notMove

\* An order with an item of the resource is created in the project of the
\* resource; shared says that it also holds items of other resources.
AddMoveOrder(o, shared) ==
    /\ moveDb.orders[o].project = NoProject
    /\ moveDb' = [moveDb EXCEPT !.orders[o] = [project |-> moveDb.resource, shared |-> shared]]
    /\ lastMove' = NoMove
    /\ UNCHANGED notMove

\* An invoice item of the resource is registered in the invoice of its project.
AddInvoiceItem(k) ==
    /\ moveDb.invoice_items[k].project = NoProject
    /\ moveDb' = [moveDb EXCEPT !.invoice_items[k] = [project |-> moveDb.resource]]
    /\ lastMove' = NoMove
    /\ UNCHANGED notMove

\* The resource gets its scope, in the project of the resource; with_offering
\* says that the service settings of the scope have offerings of their own.
SetScope(with_offering) ==
    /\ moveDb.scope = NoProject
    /\ moveDb' = [moveDb EXCEPT !.scope = moveDb.resource,
                                !.offering = IF with_offering THEN moveDb.resource
                                             ELSE NoProject]
    /\ lastMove' = NoMove
    /\ UNCHANGED notMove

\* The invoice of a customer leaves the PENDING state.
CloseInvoice(customer) ==
    /\ moveDb.invoices[customer] = "PENDING"
    /\ moveDb' = [moveDb EXCEPT !.invoices[customer] = "CREATED"]
    /\ lastMove' = NoMove
    /\ UNCHANGED notMove

InitMove ==
    /\ moveDb = [resource |-> "project1", scope |-> NoProject, offering |-> NoProject,
                 orders |-> [o \in MoveOrderIds |-> [project |-> NoProject, shared |-> FALSE]],
                 invoice_items |-> [k \in MoveItemIds |-> [project |-> NoProject]],
                 invoices |-> [c \in Customers |-> "PENDING"]]
    /\ lastMove = NoMove

NextMove ==
    \/ \E p \in Projects : MoveResourceRequest(p)
    \/ \E o \in MoveOrderIds, sh \in BOOLEAN : AddMoveOrder(o, sh)
    \/ \E k \in MoveItemIds : AddInvoiceItem(k)
    \/ \E c \in Customers : CloseInvoice(c)
    \/ \E with_offering \in BOOLEAN : SetScope(with_offering)

(***************************************************************************)
(* The delete executors of waldur_openstack.  An executor builds a Celery  *)
(* chain; a worker runs the tasks of the chain one after the other, a task *)
(* that raises ends the chain and starts the failure signature, and a      *)
(* chain that ends starts the success signature.                           *)
(***************************************************************************)
ExecutorKinds == {"tenant", "security_group", "server_group", "network", "subnet"}

\* core_tasks.StateTransitionTask().si(instance, state_transition=...)
StateTransitionTask(state_transition) ==
    [type |-> "transition", method |-> "", state_transition |-> state_transition]

\* core_tasks.BackendMethodTask().si(instance, method, state_transition=...)
BackendMethodTask(method, state_transition) ==
    [type |-> "backend", method |-> method, state_transition |-> state_transition]

\* core_tasks.PollBackendCheckTask().si(instance, backend_check_method=...)
PollBackendCheckTask(backend_check_method) ==
    [type |-> "poll", method |-> backend_check_method, state_transition |-> ""]

\* TenantDeleteExecutor.get_networks_cleanup_tasks
get_networks_cleanup_tasks ==
    << BackendMethodTask("delete_tenant_floating_ips", ""),
       BackendMethodTask("delete_tenant_routes", ""),
       BackendMethodTask("delete_tenant_ports", ""),
       BackendMethodTask("delete_tenant_routers", ""),
       BackendMethodTask("pull_tenant_routers", ""),
       BackendMethodTask("delete_tenant_networks", "") >>

\* TenantDeleteExecutor.get_instances_cleanup_tasks
get_instances_cleanup_tasks ==
    << BackendMethodTask("delete_tenant_security_groups", ""),
       BackendMethodTask("delete_tenant_snapshots", ""),
       PollBackendCheckTask("are_all_tenant_snapshots_deleted"),
       BackendMethodTask("delete_tenant_instances", ""),
       PollBackendCheckTask("are_all_tenant_instances_deleted"),
       BackendMethodTask("delete_tenant_volumes", ""),
       PollBackendCheckTask("are_all_tenant_volumes_deleted"),
       BackendMethodTask("delete_tenant_server_groups", "") >>

\* TenantDeleteExecutor.get_identity_cleanup_tasks
get_identity_cleanup_tasks ==
    << BackendMethodTask("delete_tenant_user", ""),
       BackendMethodTask("delete_tenant", "") >>

\* Faulty variant of TenantDeleteExecutor.get_task_signature: the identity cleanup
\* comes before the instance cleanup.
TenantDeleteExecutor_identity_first(backend_id) ==
    IF ~backend_id THEN <<StateTransitionTask("begin_deleting")>>
    ELSE <<StateTransitionTask("begin_deleting")>> \o get_networks_cleanup_tasks
            \o get_identity_cleanup_tasks \o get_instances_cleanup_tasks

\* TenantDeleteExecutor.get_task_signature
TenantDeleteExecutor(backend_id) ==
    IF ~backend_id THEN <<StateTransitionTask("begin_deleting")>>
    ELSE <<StateTransitionTask("begin_deleting")>> \o get_networks_cleanup_tasks
            \o get_instances_cleanup_tasks \o get_identity_cleanup_tasks

\* Faulty variant of SecurityGroupDeleteExecutor.get_task_signature: the group is
\* deleted at the backend before it is detached from the ports.
SecurityGroupDeleteExecutor_delete_first(backend_id) ==
    <<StateTransitionTask("begin_deleting")>> \o
    (IF backend_id
     THEN << BackendMethodTask("detach_security_group_from_all_instances", ""),
             BackendMethodTask("delete_security_group", ""),
             BackendMethodTask("detach_security_group_from_all_ports", "") >>
     ELSE <<>>)

\* SecurityGroupDeleteExecutor.get_task_signature
SecurityGroupDeleteExecutor(backend_id) ==
    <<StateTransitionTask("begin_deleting")>> \o
    (IF backend_id
     THEN << BackendMethodTask("detach_security_group_from_all_instances", ""),
             BackendMethodTask("detach_security_group_from_all_ports", ""),
             BackendMethodTask("delete_security_group", "") >>
     ELSE <<>>)

\* Faulty variant of NetworkDeleteExecutor.get_task_signature: the backend is
\* called whether or not the network has a backend_id.
NetworkDeleteExecutor_always_calls(backend_id) ==
    <<BackendMethodTask("delete_network", "begin_deleting")>>

\* ServerGroupDeleteExecutor.get_task_signature
ServerGroupDeleteExecutor(backend_id) ==
    IF backend_id THEN <<BackendMethodTask("delete_server_group", "begin_deleting")>>
    ELSE <<StateTransitionTask("begin_deleting")>>

\* NetworkDeleteExecutor.get_task_signature
NetworkDeleteExecutor(backend_id) ==
    IF backend_id THEN <<BackendMethodTask("delete_network", "begin_deleting")>>
    ELSE <<StateTransitionTask("begin_deleting")>>

\* SubNetDeleteExecutor.get_task_signature
SubNetDeleteExecutor(backend_id) ==
    IF backend_id THEN <<BackendMethodTask("delete_subnet", "begin_deleting")>>
    ELSE <<StateTransitionTask("begin_deleting")>>

get_task_signature(kind, backend_id) ==
    CASE kind = "tenant" -> TenantDeleteExecutor(backend_id)
      [] kind = "security_group" -> SecurityGroupDeleteExecutor(backend_id)
      [] kind = "server_group" -> ServerGroupDeleteExecutor(backend_id)
      [] kind = "network" -> NetworkDeleteExecutor(backend_id)
      [] OTHER -> SubNetDeleteExecutor(backend_id)

\* The FSM state a transition leaves the resource in.
StateAfter(state_transition) ==
    IF state_transition = "begin_deleting" THEN "DELETING" ELSE "ERRED"

\* Executor.execute: pre_apply (schedule_deleting, saved) and the chain is sent to
\* the workers.  A resource can be deleted when it is OK or ERRED.
ExecuteDelete(kind, backend_id) ==
    /\ exec.status \in {"idle", "failed"}
    /\ exec.status = "failed" => kind = exec.kind /\ backend_id = exec.backend_id
    /\ exec.state \in {"OK", "ERRED"}
    /\ exec' = [kind |-> kind, backend_id |-> backend_id,
                state |-> "DELETION_SCHEDULED",
                chain |-> get_task_signature(kind, backend_id),
                retries |-> 0, status |-> "running"]
    /\ calls' = <<"schedule_deleting">>
    /\ UNCHANGED notExec

\* The failure signature: ErrorStateTransitionTask sets the resource erred.
FailChain(e) == [e EXCEPT !.state = "ERRED", !.chain = <<>>, !.status = "failed"]

\* A worker runs the first task of the chain.  A StateTransitionTask makes the
\* transition; a BackendMethodTask makes its transition, if it has one, and
\* calls the backend method, which returns (ok) or raises; a
\* PollBackendCheckTask calls the check, which confirms (ok), raises, or says
\* not yet, in which case the task is retried.
RunTask(outcome) ==
    /\ exec.status = "running"
    /\ exec.chain # <<>>
    /\ LET task == Head(exec.chain)
           made == IF task.state_transition # "" THEN <<task.state_transition>> ELSE <<>>
           after == IF task.state_transition # ""
                    THEN [exec EXCEPT !.state = StateAfter(task.state_transition)]
                    ELSE exec
       IN CASE task.type = "transition" ->
                 /\ outcome = "ok"
                 /\ exec' = [after EXCEPT !.chain = Tail(@)]
                 /\ calls' = calls \o made
            [] task.type = "backend" ->
                 /\ outcome \in {"ok", "raise"}
                 /\ exec' = IF outcome = "ok" THEN [after EXCEPT !.chain = Tail(@)]
                            ELSE FailChain(after)
                 /\ calls' = calls \o made \o <<task.method>>
            [] OTHER ->
                 /\ outcome = "retry" => exec.retries < MaxRetries
                 /\ exec' = CASE outcome = "ok" -> [exec EXCEPT !.chain = Tail(@), !.retries = 0]
                              [] outcome = "retry" -> [exec EXCEPT !.retries = @ + 1]
                              [] OTHER -> FailChain(exec)
                 /\ calls' = IF outcome = "ok" THEN calls \o <<task.method>> ELSE calls
    /\ UNCHANGED notExec

\* The chain has ended: the success signature runs.
FinishChain ==
    /\ exec.status = "running"
    /\ exec.chain = <<>>
    /\ exec' = [exec EXCEPT !.status = "succeeded"]
    /\ UNCHANGED <<calls, notExec>>

InitExec ==
    /\ exec = [kind |-> "none", backend_id |-> FALSE, state |-> "OK",
               chain |-> <<>>, retries |-> 0, status |-> "idle"]
    /\ calls = <<>>

NextExec ==
    \/ \E kind \in ExecutorKinds, backend_id \in BOOLEAN : ExecuteDelete(kind, backend_id)
    \/ \E outcome \in {"ok", "raise", "retry"} : RunTask(outcome)
    \/ FinishChain

(***************************************************************************)
(* ZammadServiceBackend.create_issue.                                      *)
(***************************************************************************)
ZammadIssueIds == 1..MaxZammadIssues
ZammadStatuses == {"new", "open"}
ZammadErrors == {"ticket refused", "zammad unavailable"}

\* What manager.add_issue does: it returns a ticket, or raises ZammadBackendError.
AddIssueOutcomes ==
    [raised : {""}, status : ZammadStatuses] \cup [raised : ZammadErrors, status : {""}]

\* An issue as it is saved before the backend is asked to create it.
NewZammadIssue ==
    [state |-> "CREATION_SCHEDULED", backend_id |-> 0, status |-> "", error_message |-> ""]

\* Faulty variant of create_issue: ZammadBackendError is not handled.
zammad_create_issue_unhandled(issue, held, outcome) ==
    LET creating == [issue EXCEPT !.state = "CREATING"]
    IN IF outcome.raised = ""
       THEN [issue |-> [creating EXCEPT !.backend_id = Len(held) + 1,
                                        !.status = outcome.status,
                                        !.state = "OK"],
             tickets |-> Append(held, outcome.status)]
       ELSE [issue |-> creating, tickets |-> held]

\* ZammadServiceBackend.create_issue: begin_creating and save; add_issue; then
\* backend_id, status, set_ok and save, or, when ZammadBackendError is raised,
\* set_erred, error_message and save.
zammad_create_issue(issue, held, outcome) ==
    LET creating == [issue EXCEPT !.state = "CREATING"]
    IN IF outcome.raised = ""
       THEN [issue |-> [creating EXCEPT !.backend_id = Len(held) + 1,
                                        !.status = outcome.status,
                                        !.state = "OK"],
             tickets |-> Append(held, outcome.status)]
       ELSE [issue |-> [creating EXCEPT !.state = "ERRED",
                                        !.error_message = outcome.raised],
             tickets |-> held]

\* A support issue is saved, to be created at the backend.
SaveZammadIssue(i) ==
    /\ i \notin DOMAIN zammadIssues
    /\ zammadIssues' = [k \in DOMAIN zammadIssues \cup {i} |->
                          IF k = i THEN NewZammadIssue ELSE zammadIssues[k]]
    /\ UNCHANGED <<tickets, notZammad>>

\* create_issue is called for an issue that awaits creation.
CreateZammadIssue(i, outcome) ==
    /\ i \in DOMAIN zammadIssues
    /\ zammadIssues[i].state = "CREATION_SCHEDULED"
    /\ LET done == zammad_create_issue(zammadIssues[i], tickets, outcome)
       IN /\ zammadIssues' = [zammadIssues EXCEPT ![i] = done.issue]
          /\ tickets' = done.tickets
    /\ UNCHANGED notZammad

InitZammad ==
    /\ zammadIssues = << >>
    /\ tickets = << >>

NextZammad ==
    \/ \E i \in ZammadIssueIds : SaveZammadIssue(i)
    \/ \E i \in ZammadIssueIds, outcome \in AddIssueOutcomes : CreateZammadIssue(i, outcome)

\* No request is being served.
InitRequests == requests = {}

InitRest == InitRequests /\ InitStructure /\ InitCounts /\ InitQuotas /\ InitLimits /\ InitMove /\ InitExec /\ InitZammad

\* Grants and revocations served one at a time.
NextRoles ==
    \/ \E k \in PermissionKeys : AddUser(k)
    \/ \E k \in PermissionKeys : RemoveUser(k)

\* Grants on the customer and the project served by concurrent workers.
NextGrantRace ==
    \/ \E k \in PermissionKeys : k.structure \in {"customer", "project"} /\ BeginAddUser(k)
    \/ \E g \in grants : FinishAddUser(g)
    \/ \E k \in PermissionKeys : k.structure \in {"customer", "project"} /\ AddUser(k)
    \/ \E k \in PermissionKeys : k.structure \in {"customer", "project"} /\ RemoveUser(k)

Init ==
    /\ resources = <<InitResource>>
    /\ orders = <<>>
    /\ items = <<>>
    /\ issues = <<>>
    /\ tasks = {}
    /\ last = NoRequest
    /\ InitPull
    /\ InitRest

\* What the backend may do when item i is processed.  Only the create processor
\* reads the backend_id of the issue, so it is varied for create items only.
\* What the backend may do while item i is processed: the backend_id of the
\* issue is drawn from B for a create item, whose resource takes it.
InputsFor(i, B) ==
    IF items[i].type = "CREATE" THEN [raises : BOOLEAN, backend_id : B]
    ELSE [raises : BOOLEAN, backend_id : {"NULL"}]

\* A Celery worker takes a process_order task one item further.
ProcessOrders(B) ==
    \E t \in tasks : t.kind = "process_order" /\
        \E inp \in InputsFor(Min(Unprocessed(t)), B) : RunProcessOrder(t, inp)

\* A Celery worker runs a process_order_item task.
ProcessOrderItems(B) ==
    \E t \in tasks : t.kind = "process_order_item" /\
        \E inp \in InputsFor(t.id, B) : RunProcessOrderItem(t, inp)

\* The consumer side reviews an order, or rejects one of its items.
ReviewOrders ==
    \/ \E o \in Indexes(orders) : OrderApprove(o)
    \/ \E o \in Indexes(orders) : OrderReject(o)
    \/ \E i \in Indexes(items) : ItemReject(i)

Next ==
    \/ \E u \in {"staff", "owner"}, n \in 1..2, f \in [1..2 -> OfferingTypes] :
          CreateOrder(u, [k \in 1..n |-> f[k]], MaxItems)
    \/ ReviewOrders
    \/ \E i \in Indexes(items) : ItemApprove(i)
    \/ \E i \in Indexes(items) : SetStateExecuting(i)
    \/ \E i \in Indexes(items) : SetStateDone(i)
    \/ \E i \in Indexes(items) : SetStateErred(i)
    \/ ProcessOrders({"WAL TEST"})
    \/ ProcessOrderItems({"WAL TEST"})
    \/ \E i \in Indexes(items), s \in {"resolved", "canceled"} : IssueStatusChange(i, s)

Spec == Init /\ [][Next]_vars

(***************************************************************************)
(* The specification of the support-desk requests: a user asks to          *)
(* terminate a resource, to switch its plan or to update its limits, or    *)
(* orders a new resource of the support offering.  The order is reviewed   *)
(* on the consumer side, processed by its task and closed by the support   *)
(* desk through the issue; the provider's approval of single order items   *)
(* (OrderItemViewSet.approve, written for remote and basic offerings) is   *)
(* part of Spec only.                                                      *)
(***************************************************************************)
ResourceRequests(U) ==
    \/ \E u \in U, r \in Indexes(resources) : Terminate(u, r, MaxSupportItems)
    \/ \E u \in U, r \in Indexes(resources), p \in PlanIds :
          SwitchPlan(u, r, p, MaxSupportItems)
    \/ \E u \in U, r \in Indexes(resources), l \in LimitValues :
          UpdateLimits(u, r, l, MaxSupportItems)

SupportDesk ==
    \/ ReviewOrders
    \/ ProcessOrders(IssueBackendIds)
    \/ \E i \in Indexes(items), s \in {"resolved", "canceled"} : IssueStatusChange(i, s)

NextSupport ==
    \/ ResourceRequests({"staff", "owner"})
    \/ \E u \in {"staff", "owner"} : CreateOrder(u, <<"support">>, MaxSupportItems)
    \/ SupportDesk

SpecSupport == Init /\ [][NextSupport]_vars

(***************************************************************************)
(* Requests on one resource served by several workers at once.  The         *)
(* validators of an action run when the request is received; the body of   *)
(* the action runs afterwards in its own transaction, and nothing locks    *)
(* the resource in between.                                                *)
(***************************************************************************)
ActionValidators(op, db, r) ==
    IF op = "terminate" THEN terminate_validators(db, r) ELSE switch_plan_validators(db, r)

\* The permission and validator phase of terminate, switch_plan and update_limits.
ValidateRequest(user, r, op, plan, limits) ==
    /\ Cardinality(requests) < MaxRequests
    /\ ResourceActionStatus(DB, user, r, ActionValidators(op, DB, r)) = 200
    /\ \E id \in 1..MaxRequests :
          /\ \A q \in requests : q.id # id
          /\ requests' = requests \cup
                {[id |-> id, op |-> op, user |-> user, resource |-> r,
                  plan |-> plan, limits |-> limits]}
    /\ UNCHANGED notRequests

\* The body of the action: the order item and its order are created.
ServeRequest(q, max) ==
    /\ q \in requests
    /\ Room(1, max)
    /\ \E auto \in AutoApproving(q.user) :
          LET res == CASE q.op = "terminate" -> terminate(DB, tasks, q.resource, auto)
                       [] q.op = "switch_plan" ->
                              switch_plan(DB, tasks, q.resource, q.plan, auto)
                       [] OTHER -> update_limits(DB, tasks, q.resource, q.limits, auto)
          IN /\ resources' = res.db.resources
             /\ orders' = res.db.orders
             /\ items' = res.db.items
             /\ issues' = res.db.issues
             /\ tasks' = res.tasks
             /\ last' = [op |-> q.op, user |-> q.user, id |-> q.resource,
                         status |-> 200, outcome |-> "ordered"]
    /\ requests' = requests \ {q}
    /\ UNCHANGED notMarketOrRequests

NextRace ==
    \/ \E u \in {"staff", "owner"}, r \in Indexes(resources) :
          ValidateRequest(u, r, "terminate", "", NoLimits)
    \/ \E u \in {"staff", "owner"}, r \in Indexes(resources), p \in PlanIds :
          ValidateRequest(u, r, "switch_plan", p, NoLimits)
    \/ \E u \in {"staff", "owner"}, r \in Indexes(resources), l \in LimitValues :
          ValidateRequest(u, r, "update_limits", "", l)
    \/ \E q \in requests : ServeRequest(q, MaxRaceItems)
    \/ ProcessOrders({"WAL TEST"})
    \/ \E i \in Indexes(items), st \in {"resolved", "canceled"} : IssueStatusChange(i, st)

SpecRace == Init /\ [][NextRace]_vars

(***************************************************************************)
(* The requests on the resource made by every kind of user.                *)
(***************************************************************************)
NextAccess == ResourceRequests(Users) \/ SupportDesk

SpecAccess == Init /\ [][NextAccess]_vars

(***************************************************************************)
(* The specification of the pull of a remote offering: the offering is     *)
(* imported with the plans the remote side has at that time, then the      *)
(* remote side changes and the offering is pulled.                         *)
(***************************************************************************)
InitImported ==
    /\ resources = <<InitResource>>
    /\ orders = <<>>
    /\ items = <<>>
    /\ issues = <<>>
    /\ tasks = {}
    /\ last = NoRequest
    /\ remote \in [RemotePlanIds -> RemotePlan]
    /\ plans = import_plans(<<>>, remote, Published(remote))
    /\ pulls = 0
    /\ InitRest

NextPull ==
    \/ \E u \in RemotePlanIds, rec \in RemotePlan : RemoteChange(u, rec)
    \/ PullOffering
    \/ \E k \in Indexes(plans) : ArchivePlan(k)

SpecPull == InitImported /\ [][NextPull]_vars

SpecCounts == Init /\ [][NextCounts]_vars

SpecQuotas == Init /\ [][NextQuotas]_vars

SpecLimits == Init /\ [][NextLimits]_vars

SpecMove == Init /\ [][NextMove]_vars

SpecExec == Init /\ [][NextExec]_vars

SpecZammad == Init /\ [][NextZammad]_vars

SpecRoles == Init /\ [][NextRoles]_vars

SpecGrantRace == Init /\ [][NextGrantRace]_vars




(***************************************************************************)
(* Properties.                                                             *)
(***************************************************************************)
ItemsTerminal(its, S) == \A j \in S : its[j].state \in TERMINAL_STATES

\* A step on which the status of the support issue of order item i changes to
\* status while the item, of the given type, is still EXECUTING.
IssueCloses(i, type, status) ==
    /\ items[i].offering = "support"
    /\ items[i].type = type
    /\ items[i].state = "EXECUTING"
    /\ issues[i].exists
    /\ issues[i].status # status
    /\ issues'[i].status = status

\* C1: when the processing of an order item fails (no processor is registered
\* for the offering type, or the processor raises), the item ends in ERRED with
\* the error text stored in error_message, and its order is not left EXECUTING
\* once all of its items are terminal.
C1_FailedProcessingErrsItem ==
    [][(last'.op = "process" /\ last'.outcome \in {"no_processor", "exception"}) =>
           LET i == last'.id
               o == items'[i].order
           IN /\ items'[i].state = "ERRED"
              /\ items'[i].error_message # ""
              /\ ItemsTerminal(items', {j \in Indexes(items') : items'[j].order = o})
                   => orders'[o].state # "EXECUTING"]_vars

\* C1 case: the processor of one item raised, another item of the order found no
\* processor, both are ERRED with their messages and the order has completed.
C1_Witness ==
    /\ last.op = "process"
    /\ last.outcome = "exception"
    /\ items[last.id].state = "ERRED"
    /\ items[last.id].error_message # ""
    /\ orders[items[last.id].order].state = "DONE"
    /\ \E j \in Indexes(items) :
          /\ j # last.id
          /\ items[j].order = items[last.id].order
          /\ items[j].offering = "unregistered"
          /\ items[j].state = "ERRED"
          /\ items[j].error_message # ""

C6_UpdateRequestsNeedOk ==
    [][last'.op \in {"switch_plan", "update_limits"} =>
           /\ last'.status = 200 => resources[last'.id].state = "OK"
           /\ resources[last'.id].state # "OK" =>
                 /\ has_admin_access(last'.user) => last'.status = 409
                 /\ orders' = orders
                 /\ items' = items]_vars

\* C6 case: a switch_plan request on a resource that is UPDATING got 409.
C6_Witness ==
    /\ last.op = "switch_plan"
    /\ last.status = 409
    /\ resources[last.id].state = "UPDATING"
    /\ \E i \in Indexes(items) : items[i].resource = last.id /\ items[i].state = "EXECUTING"

\* A resource the validators of terminate let through.
Terminable(r) ==
    /\ resources[r].state \in {"OK", "ERRED"}
    /\ ~\E j \in Indexes(items) :
           items[j].resource = r /\ items[j].state \in {"PENDING", "EXECUTING"}

\* The request made an order of one terminate item for resource r.
TerminateOrdered(r) ==
    /\ Len(orders') = Len(orders) + 1
    /\ Len(items') = Len(items) + 1
    /\ items'[Len(items')].type = "TERMINATE"
    /\ items'[Len(items')].resource = r
    /\ items'[Len(items')].order = Len(orders')

NothingOrdered == orders' = orders /\ items' = items

\* C7 as stated: a terminate request succeeds with 200 and an order for staff
\* and for the owner, administrator and manager of the project, and every user
\* with no role in the project or its organization gets 404 and no order.
C7_NoRoleGets404 ==
    [][last'.op = "terminate" =>
           /\ (last'.user \in {"staff", "owner", "admin", "manager"} /\ Terminable(last'.id))
                 => (last'.status = 200 /\ TerminateOrdered(last'.id))
           /\ last'.user \in {"user", "support"}
                 => (last'.status = 404 /\ NothingOrdered)]_vars

\* C7: a terminate request succeeds with 200 and an order for staff and for the
\* owner, administrator and manager of the project, and a user with no role in
\* the project or its organization who is neither staff nor support gets 404 and
\* no order is created.
C7_NoRoleNoSupportGets404 ==
    [][last'.op = "terminate" =>
           /\ (last'.user \in {"staff", "owner", "admin", "manager"} /\ Terminable(last'.id))
                 => (last'.status = 200 /\ TerminateOrdered(last'.id))
           /\ last'.user = "user"
                 => (last'.status = 404 /\ NothingOrdered)]_vars

\* C7 case: the terminate request of the manager has made an order.
C7_Witness ==
    /\ last.op = "terminate"
    /\ last.user = "manager"
    /\ last.status = 200
    /\ Len(items) = 1
    /\ items[1].type = "TERMINATE"

\* C8: when a create item of a support offering is processed, the backend_id of
\* the resource created for it is the backend_id of the issue created for the
\* item, and the empty string when the issue has none.
C8_ResourceTakesIssueBackendId ==
    [][\A i \in Indexes(items) :
          (/\ items[i].offering = "support"
           /\ items[i].type = "CREATE"
           /\ items[i].resource = 0
           /\ items'[i].resource # 0) =>
              /\ issues'[i].exists
              /\ resources'[items'[i].resource].backend_id =
                    (IF issues'[i].backend_id = "NULL" THEN "" ELSE issues'[i].backend_id)]_vars

\* C8 case: a processed create item whose issue has a backend_id.
C8_Witness ==
    \E i \in Indexes(items) :
        /\ items[i].offering = "support"
        /\ items[i].type = "CREATE"
        /\ items[i].resource # 0
        /\ issues[i].exists
        /\ issues[i].backend_id = "WAL TEST"
        /\ resources[items[i].resource].backend_id = "WAL TEST"

\* C9: a pull of the remote offering deletes no local plan: every local plan is
\* kept, one whose backend_id is not among the remote plans is archived, and
\* one local plan is created for each remote plan that was not known.
C9_PullKeepsPlans ==
    [][pulls' # pulls =>
           /\ Len(plans') >= Len(plans)
           /\ \A k \in Indexes(plans) :
                 /\ plans'[k].backend_id = plans[k].backend_id
                 /\ plans[k].backend_id \notin Published(remote) => plans'[k].archived
           /\ \A u \in Published(remote) \ LocalBackendIds(plans) :
                 Cardinality({k \in Indexes(plans') \ Indexes(plans) :
                                 plans'[k].backend_id = u}) = 1]_vars

\* C9 case: after a pull the plan imported first is stale and archived, and a
\* plan made by the pull carries the uuid of a remote plan.
C9_Witness ==
    /\ pulls > 0
    /\ Len(plans) >= 2
    /\ plans[1].backend_id \notin Published(remote)
    /\ plans[1].archived
    /\ plans[Len(plans)].backend_id \in Published(remote)
    /\ ~plans[Len(plans)].archived

\* C10: when an item changes to a terminal state while its order is EXECUTING
\* and no item of the order is left non-terminal, the order becomes DONE; and an
\* order does not become DONE while one of its items is non-terminal.
C10_OrderCompletesWithLastItem ==
    [][\A o \in Indexes(orders) :
          LET its == {j \in Indexes(items') : items'[j].order = o} IN
          /\ (/\ orders[o].state = "EXECUTING"
              /\ \E i \in Indexes(items) :
                    /\ items[i].order = o
                    /\ items'[i].state # items[i].state
                    /\ items'[i].state \in TERMINAL_STATES
              /\ ItemsTerminal(items', its)) => orders'[o].state = "DONE"
          /\ (orders[o].state # "DONE" /\ orders'[o].state = "DONE")
                => ItemsTerminal(items', its)]_vars

\* C10 case: an order of two items is DONE, one item DONE and the other ERRED.
C10_Witness ==
    \E o \in Indexes(orders) :
        /\ orders[o].state = "DONE"
        /\ \E i, j \in Indexes(items) :
              /\ items[i].order = o
              /\ items[j].order = o
              /\ items[i].state = "DONE"
              /\ items[j].state = "ERRED"

\* C11 as stated: every item of an order in state DONE is in a terminal state.
C11_DoneOrderHasTerminalItems ==
    \A o \in Indexes(orders) :
        orders[o].state = "DONE" => ItemsTerminal(items, ItemsOf(DB, o))

\* The order items of resource r that are PENDING or EXECUTING.
OpenItems(r) ==
    {j \in Indexes(items) : items[j].resource = r
                            /\ items[j].state \in {"PENDING", "EXECUTING"}}

\* C12 as stated: a resource never has two order items in state PENDING or
\* EXECUTING, also when requests for it are served concurrently.
C12_OneOpenItemPerResource ==
    \A r \in Indexes(resources) : Cardinality(OpenItems(r)) <= 1

\* C13: on every step on which an order changes from REQUESTED_FOR_APPROVAL to
\* REJECTED, every order item of that order is TERMINATED after the step.
C13_RejectedOrderTerminatesItems ==
    [][\A o \in Indexes(orders) :
          (orders[o].state = "REQUESTED_FOR_APPROVAL" /\ orders'[o].state = "REJECTED")
          => \A j \in Indexes(items') :
                items'[j].order = o => items'[j].state = "TERMINATED"]_vars

\* A rejected order of two items, one of which had been approved on its own (its
\* processing is still scheduled), with both items TERMINATED.
C13_Witness ==
    \E o \in Indexes(orders) :
        /\ orders[o].state = "REJECTED"
        /\ Cardinality(ItemsOf(DB, o)) = 2
        /\ \E t \in tasks : t.kind = "process_order_item" /\ items[t.id].order = o
        /\ \A j \in ItemsOf(DB, o) : items[j].state = "TERMINATED"

\* C14: on every step that serves approve for order item i: if the item was
\* PENDING it is EXECUTING afterwards and nothing else of it has changed, its
\* processing is scheduled and has not run, and its order, if it was
\* REQUESTED_FOR_APPROVAL, is EXECUTING exactly when none of its items is PENDING
\* any more; if the item was neither PENDING nor EXECUTING the request is
\* refused with 400 and changes nothing.
C14_ItemApproval ==
    [][\A i \in Indexes(items) :
          (last'.op = "item_approve" /\ last'.id = i) =>
             LET o == items[i].order
                 task == [kind |-> "process_order_item", id |-> i, pos |-> 0]
             IN /\ items[i].state = "PENDING" =>
                      /\ last'.status = 200
                      /\ items'[i] = [items[i] EXCEPT !.state = "EXECUTING"]
                      /\ resources' = resources /\ issues' = issues
                      /\ task \notin tasks /\ tasks' = tasks \cup {task}
                      /\ orders[o].state = "REQUESTED_FOR_APPROVAL" =>
                            orders'[o].state =
                               IF \E j \in Indexes(items') :
                                     items'[j].order = o /\ items'[j].state = "PENDING"
                               THEN "REQUESTED_FOR_APPROVAL" ELSE "EXECUTING"
                /\ items[i].state \notin {"PENDING", "EXECUTING"} =>
                      /\ last'.status = 400
                      /\ UNCHANGED <<resources, orders, items, issues, tasks>>]_vars

\* The last of the PENDING items of an order was approved: the order is EXECUTING,
\* the item is EXECUTING and its processing is scheduled.
C14_Witness ==
    /\ last.op = "item_approve" /\ last.status = 200
    /\ last.id \in Indexes(items)
    /\ items[last.id].state = "EXECUTING"
    /\ orders[items[last.id].order].state = "EXECUTING"
    /\ Cardinality(ItemsOf(DB, items[last.id].order)) = 2
    /\ [kind |-> "process_order_item", id |-> last.id, pos |-> 0] \in tasks
    /\ \E t \in tasks : t.kind = "process_order_item" /\ t.id # last.id

\* C15: on every step that serves approve or reject for order o, the request is
\* accepted (200) exactly when the order was REQUESTED_FOR_APPROVAL; otherwise
\* it is refused and the states of the order and of all order items are as before.
\* An existing order becomes REJECTED, or has its processing scheduled, only on a
\* step that leaves from REQUESTED_FOR_APPROVAL.
C15_ReviewOnlyWhenRequested ==
    [][\A o \in Indexes(orders) :
          /\ (last'.op \in {"order_approve", "order_reject"} /\ last'.id = o) =>
                IF orders[o].state = "REQUESTED_FOR_APPROVAL"
                THEN /\ last'.status = 200
                     /\ orders'[o].state =
                           IF last'.op = "order_approve" THEN "EXECUTING" ELSE "REJECTED"
                ELSE /\ last'.status # 200
                     /\ orders' = orders
                     /\ \A j \in Indexes(items) : items'[j].state = items[j].state
                     /\ tasks' = tasks
          /\ (orders'[o].state = "REJECTED" /\ orders[o].state # "REJECTED") =>
                orders[o].state = "REQUESTED_FOR_APPROVAL"
          /\ ([kind |-> "process_order", id |-> o, pos |-> 0] \in tasks' \ tasks) =>
                orders[o].state = "REQUESTED_FOR_APPROVAL"]_vars

\* A reject request for an order that is already EXECUTING with an item being
\* processed was refused.
C15_Witness ==
    /\ last.op = "order_reject" /\ last.status = 409
    /\ last.id \in Indexes(orders)
    /\ orders[last.id].state = "EXECUTING"
    /\ \E j \in ItemsOf(DB, last.id) : items[j].state = "EXECUTING"

\* A step on which an add_user call ends: served alone, or the second half of a
\* call served next to others.
AddUserEnds ==
    \/ grants' = grants /\ lastGrant'.outcome # "none"
    \/ grants' # grants /\ grants' \subseteq grants

\* No user has two active permissions with the same role on the customer or on
\* the project.
OneActivePermission ==
    \A k \in PermissionKeys :
        k.structure \in {"customer", "project"} => permissions[k] <= 1

\* C16 as stated: no user ever has two active permissions with the same role on
\* the customer or the project, and every add_user call that ends while the user
\* actively holds the role returns the existing permission, creates nothing and
\* sends no role-granted signal, also when the same grant is made concurrently.
C16_GrantReturnsExisting ==
    /\ []OneActivePermission
    /\ [][AddUserEnds =>
            LET k == Key(lastGrant'.structure, lastGrant'.user, lastGrant'.role) IN
            permissions[k] >= 1 =>
                /\ lastGrant'.outcome = "existing"
                /\ permissions' = permissions
                /\ ~lastGrant'.signal]_vars

\* The active offering permissions of user u in the customer.
OfferingPermissionsOf(perms, u) == {o \in Offerings : has_user(perms, o, u, "none")}

\* An active offering permission implies the SERVICE_MANAGER role in the customer.
ServiceManagerInvariant ==
    \A u \in StructUsers :
        OfferingPermissionsOf(permissions, u) # {}
            => has_user(permissions, "customer", u, SERVICE_MANAGER)

\* C17: in every state a user with an active permission on an offering of the
\* customer holds the SERVICE_MANAGER role in the customer; a step that grants
\* an offering permission leaves the user with the role, a step that revokes
\* the role leaves the user without active offering permissions in the
\* customer, and a step that revokes the last of them leaves the user without
\* the role.
C17_ServiceManagerFollowsOfferings ==
    /\ []ServiceManagerInvariant
    /\ [][\A u \in StructUsers :
            LET before == OfferingPermissionsOf(permissions, u)
                after == OfferingPermissionsOf(permissions', u)
                held == has_user(permissions, "customer", u, SERVICE_MANAGER)
                holds == has_user(permissions', "customer", u, SERVICE_MANAGER)
            IN /\ after \ before # {} => holds
               /\ (held /\ ~holds) => after = {}
               /\ (before # {} /\ after = {}) => ~holds]_vars

\* The last grant gave alice the permission on a second offering of the customer,
\* and she holds the role, while bob, whose role was granted directly, has no
\* offering permission.
C17_Witness ==
    /\ lastGrant.structure \in Offerings /\ lastGrant.user = "alice" /\ lastGrant.created
    /\ OfferingPermissionsOf(permissions, "alice") = Offerings
    /\ has_user(permissions, "customer", "alice", SERVICE_MANAGER)
    /\ OfferingPermissionsOf(permissions, "bob") = {}
    /\ has_user(permissions, "customer", "bob", SERVICE_MANAGER)

\* C18 as stated: the stored count of every project and customer for every
\* category is the number of its resources of that category that are not
\* TERMINATED, and is not negative.
C18_AggregateCountsAreExact ==
    \A sc \in DOMAIN aggregate :
        /\ aggregate[sc] = Cardinality(CountedResources(inventory, sc[1], sc[2]))
        /\ aggregate[sc] >= 0

\* C19: in every state the offering_count usage of each category is the number
\* of offerings of that category that are ACTIVE.
C19_OfferingCountIsActiveOfferings ==
    \A c \in Categories :
        offering_count[c] = Cardinality(ActiveOfferings(offeringRows, c))

\* category1 has two ACTIVE offerings and usage 2; the third offering was paused
\* in category2, whose usage is 0.
C19_Witness ==
    /\ offering_count["category1"] = 2
    /\ ActiveOfferings(offeringRows, "category1") = {1, 2}
    /\ offeringRows[3] = [category |-> "category2", state |-> "PAUSED"]
    /\ offering_count["category2"] = 0

\* C20 as stated: a limit request is accepted exactly when the requested value
\* plus the limits of the other resources of the offering does not exceed
\* max_available_limit, and the limits of all resources of the offering never
\* add up to more than max_available_limit.
C20_AcceptedIffWithinLimit ==
    /\ lastLimit.op = "request" =>
          (lastLimit.accepted <=> lastLimit.value + lastLimit.others <= max_available_limit)
    /\ SumOver(allocated, LimitResources) <= max_available_limit

\* An order of the resource also holds items of other resources.
SharedOrderExists ==
    \E o \in MoveOrderIds : moveDb.orders[o].project # NoProject /\ moveDb.orders[o].shared

\* An invoice item of the resource would have to move to an invoice that is not
\* PENDING.
TargetInvoiceClosed(project) ==
    /\ moveDb.invoices[CustomerOf(project)] # "PENDING"
    /\ \E k \in MoveItemIds :
          moveDb.invoice_items[k].project = moveDb.resource /\ InvoicePending(moveDb, k)

\* C21: a move_resource request fails (409) exactly when an order of the
\* resource also holds items of other resources or the target invoice of one of
\* its invoice items is not PENDING, and on every step on which it fails the
\* resource, its scope, its orders and its invoice items keep their project.
C21_FailedMoveChangesNothing ==
    [][lastMove'.op = "move" =>
          /\ lastMove'.status = 409 <=>
                (SharedOrderExists \/ TargetInvoiceClosed(lastMove'.project))
          /\ lastMove'.status = 409 => moveDb' = moveDb
          /\ lastMove'.status = 200 =>
                /\ moveDb'.resource = lastMove'.project
                /\ moveDb.scope # NoProject => moveDb'.scope = lastMove'.project]_vars

\* A move to a project of another customer failed on the invoice, after the
\* resource, its scope and an order had been written inside the transaction; all
\* of them are still in the old project.
C21_Witness ==
    /\ lastMove.op = "move" /\ lastMove.status = 409
    /\ lastMove.error_message = "invoice items moving is not possible"
    /\ lastMove.project # moveDb.resource
    /\ moveDb.scope = moveDb.resource
    /\ \E o \in MoveOrderIds : moveDb.orders[o].project = moveDb.resource
    /\ \E k \in MoveItemIds : moveDb.invoice_items[k].project = moveDb.resource

IsPrefix(s, t) == Len(s) <= Len(t) /\ SubSeq(t, 1, Len(s)) = s

\* The steps of deleting a tenant that has a backend_id, in the order required.
TenantDeleteOrder ==
    << "schedule_deleting", "begin_deleting",
       "delete_tenant_floating_ips", "delete_tenant_routes", "delete_tenant_ports",
       "delete_tenant_routers", "pull_tenant_routers", "delete_tenant_networks",
       "delete_tenant_security_groups",
       "delete_tenant_snapshots", "are_all_tenant_snapshots_deleted",
       "delete_tenant_instances", "are_all_tenant_instances_deleted",
       "delete_tenant_volumes", "are_all_tenant_volumes_deleted",
       "delete_tenant_server_groups",
       "delete_tenant_user", "delete_tenant" >>

\* C22: deleting a tenant that has a backend_id makes, in this order, the
\* begin_deleting transition, the network cleanup, the instance cleanup and the
\* identity cleanup; delete_tenant is the last step, and after the deletion of
\* snapshots, of instances and of volumes nothing further is done until the
\* poll has confirmed it.  At every moment the steps made so far are a
\* beginning of that order, and a deletion that succeeded made all of them.
C22_TenantDeleteOrder ==
    (exec.kind = "tenant" /\ exec.backend_id /\ exec.status # "idle") =>
        /\ IsPrefix(calls, TenantDeleteOrder)
        /\ exec.status = "succeeded" => calls = TenantDeleteOrder

\* A tenant with a backend_id was deleted to the end, delete_tenant last.
C22_Witness ==
    /\ exec.kind = "tenant" /\ exec.backend_id /\ exec.status = "succeeded"
    /\ Len(calls) = 18 /\ calls[18] = "delete_tenant"

\* The steps of deleting a security group.
SecurityGroupDeleteOrder(backend_id) ==
    <<"schedule_deleting", "begin_deleting">> \o
    (IF backend_id
     THEN << "detach_security_group_from_all_instances",
             "detach_security_group_from_all_ports",
             "delete_security_group" >>
     ELSE <<>>)

\* C23: deleting a security group schedules the deletion, then begins deleting,
\* and only when the group has a backend_id detaches it from all instances,
\* then from all ports, and then calls the backend delete; when a step fails
\* the security group is erred.
C23_SecurityGroupDelete ==
    (exec.kind = "security_group" /\ exec.status # "idle") =>
        /\ IsPrefix(calls, SecurityGroupDeleteOrder(exec.backend_id))
        /\ exec.status = "succeeded" => calls = SecurityGroupDeleteOrder(exec.backend_id)
        /\ exec.status = "failed" => exec.state = "ERRED"

\* Detaching a security group from the ports failed and the group is erred.
C23_Witness ==
    /\ exec.kind = "security_group" /\ exec.backend_id
    /\ exec.status = "failed" /\ exec.state = "ERRED"
    /\ Len(calls) = 4 /\ calls[4] = "detach_security_group_from_all_ports"

\* C24: deleting a server group, network, subnet or tenant that has no
\* backend_id makes only the begin_deleting state transition once the deletion
\* is scheduled, and calls no backend method.
C24_NoBackendIdNoBackendCall ==
    (/\ exec.kind \in {"server_group", "network", "subnet", "tenant"}
     /\ ~exec.backend_id
     /\ exec.status # "idle") =>
        /\ IsPrefix(calls, <<"schedule_deleting", "begin_deleting">>)
        /\ exec.status # "failed"
        /\ exec.status = "succeeded" =>
              calls = <<"schedule_deleting", "begin_deleting">> /\ exec.state = "DELETING"

\* A network without a backend_id was deleted.
C24_Witness ==
    /\ exec.kind = "network" /\ ~exec.backend_id
    /\ exec.status = "succeeded" /\ exec.state = "DELETING"

====
